---- MODULE Spec2Model ----
(***************************************************************************)
(* Dependency-aware parallel conversion pipeline of Accounts-Modernization *)
(*   - DependencyScheduler.build_dependency_levels  (utils/pre_indexer.py) *)
(*   - WorkerPool / ConversionWorker                (utils/worker_pool.py) *)
(*   - AIConverter.convert_parallel            (converter/ai_converter.py) *)
(*   - RedisStore                                   (redis/redis_store.py) *)
(*   - FileChunker, AIConverter._convert_with_chunks                       *)
(*                                                 (utils/file_chunker.py) *)
(***************************************************************************)
EXTENDS Integers, Sequences, FiniteSets, TLC

(***************************************************************************)
(* Bounds of the model                                                     *)
(***************************************************************************)
\* largest number of keys of file_dependencies
MaxKeys == 3
\* largest number of dependency references in file_dependencies
MaxEdges == 3
\* number of worker threads of the pool (num_workers)
NumWorkers == 2
\* largest number of dependency levels handed to convert_parallel
MaxLevels == 2
\* largest number of work items a client of the pool submits
MaxItems == 2
\* largest number of recorded file_changed calls
MaxCalls == 3
\* largest number of top-level definitions of a file that is split
MaxDecls == 3

(***************************************************************************)
(* Identifiers and scanned files                                           *)
(***************************************************************************)
None == "None"

\* a worker that holds no work item and no result
NoItem == [id |-> 0]

\* file_info records as the scanner produces them ('path', 'name', 'lines')
FileA == [path |-> "src/a.py", name |-> "a.py", lines |-> 120]
FileB == [path |-> "src/b.py", name |-> "b.py", lines |-> 650]
FileC == [path |-> "lib/a.py", name |-> "a.py", lines |-> 30]

\* a file is given the fast model below this number of lines
FastModelLines == 200

\* FileChunker.max_chunk_lines: a file of more lines is to be chunked
MaxChunkLines == 500

Paths == {FileA.path, FileB.path, FileC.path}

\* what a file can hold, and the digest and the translation of each content
Contents == {"c1", "c2", "c3"}

\* compute_file_hash: SHA-256 of the content, one digest per content
Hash(c) == CASE c = "c1" -> "h1" [] c = "c2" -> "h2" [] c = "c3" -> "h3"

\* the Go code the engine returns for a content
Translate(c) == CASE c = "c1" -> "go1" [] c = "c2" -> "go2" [] c = "c3" -> "go3"

AllFiles == <<FileA, FileB, FileC>>

\* the local variables of _process_work_item before the call
NoLocals ==
  [file_path |-> None, content |-> None, file_changed |-> TRUE,
   cached_result |-> None, go_code |-> None]

\* identifiers a dependency graph is drawn from: a full path, file names
\* (the keys DependencyAnalyzer.analyze writes) and a module that is no
\* scanned file
GraphIds == {"src/a.py", "a.py", "b.py", "os"}

\* with the other identifiers of the scanned files (paths and stems)
AllIds == GraphIds \cup {"src/b.py", "lib/a.py", "a", "b"}

\* Path(x).name on the identifiers of the model
PathName(x) ==
  CASE x = "src/a.py" -> "a.py"
    [] x = "src/b.py" -> "b.py"
    [] x = "lib/a.py" -> "a.py"
    [] OTHER -> x

\* Path(x).stem on the identifiers of the model
PathStem(x) ==
  CASE PathName(x) = "a.py" -> "a"
    [] PathName(x) = "b.py" -> "b"
    [] OTHER -> PathName(x)

\* str(Path(x)): every identifier of the model is already in normal form
StrPath(x) == x

RECURSIVE SetToSeq(_)
\* list(s) / iteration over a Python set: some order, each element once
SetToSeq(S) ==
  IF S = {} THEN <<>>
  ELSE LET x == CHOOSE y \in S : TRUE IN <<x>> \o SetToSeq(S \ {x})

SeqToSet(s) == {s[i] : i \in 1..Len(s)}

RECURSIVE KSubsets(_, _)
\* the subsets of S with at most k elements
KSubsets(S, k) ==
  IF k = 0 THEN {{}}
  ELSE LET P == KSubsets(S, k - 1) IN P \cup {p \cup {x} : p \in P, x \in S}

\* every dependency graph with at most MaxKeys keys and MaxEdges references
Graphs ==
  UNION {
    { [k \in K |-> {d \in GraphIds : <<k, d>> \in E}] :
        E \in KSubsets(K \X GraphIds, MaxEdges) } :
    K \in KSubsets(GraphIds, MaxKeys) }

\* the scans a run can follow: no filter (None or []), or a list of files
ScannedChoices == {SubSeq(AllFiles, 1, n) : n \in 0..Len(AllFiles)}

VARIABLES
  dependency_graph,  \* file_dependencies: key -> set of identifiers
  scanned_files,     \* list of file_info records; <<>> is None / []
  all_files,         \* build_dependency_levels: all_files
  depends_on,        \* build_dependency_levels: depends_on
  processed,         \* build_dependency_levels: processed
  levels,            \* build_dependency_levels: levels (list of lists)
  cycle_warned,      \* the "Circular dependencies detected" warning was logged
  bpc,               \* position in build_dependency_levels
  \* RedisStore and the files on disk
  redis_available,   \* RedisStore.is_available(): client is not None
  client_raises,     \* every call of the client raises (the server is gone)
  file_hash,         \* the keys file_hash:<path>
  conversion,        \* the keys conversion:<path> (the go_code stored)
  content,           \* the content of each scanned file on disk
  call_log,          \* the file_changed calls made directly on the store
  \* WorkerPool and its ConversionWorker threads
  work_queue,        \* WorkerPool.work_queue
  result_queue,      \* WorkerPool.result_queue
  stop_event,        \* WorkerPool.stop_event
  wpc,               \* position of each worker in ConversionWorker.run
  witem,             \* work_item of each worker
  wresult,           \* result of each worker
  taken,             \* per submitted item: how often it was dequeued
  emitted,           \* per submitted item: how many results were put for it
  \* the caller of the pool: wait_for_completion and convert_parallel
  opc,               \* position of the caller
  total_items,       \* wait_for_completion: total_items
  results,           \* wait_for_completion: results
  completed,         \* wait_for_completion: completed
  files,             \* convert_parallel: files
  dependency_levels, \* convert_parallel: dependency_levels
  level_idx,         \* convert_parallel: level_idx
  cache_hits,        \* convert_parallel: cache_hits
  cache_misses,      \* convert_parallel: cache_misses
  modules_created,   \* convert_parallel: len(converted_modules)
  \* AIConverter
  conversion_warnings, \* len(AIConverter.conversion_warnings)
  attempts,          \* what each processing of a unit past the cache ended in
  run_no,            \* the number of the convert_parallel call under way
  \* FileChunker.chunk_file and AIConverter._convert_with_chunks
  definitions,       \* chunk_file: definitions
  defn_idx,          \* chunk_file: position of the for loop in definitions
  chunks,            \* chunk_file: chunks
  current_chunk_defs,  \* chunk_file: current_chunk_defs
  current_chunk_lines, \* chunk_file: current_chunk_lines
  chunk_results,     \* _convert_with_chunks: chunk_results
  chunk_calls,       \* engine requests made for each chunk
  complete_go_code,  \* _convert_with_chunks: the lines of complete_go_code
  cpc,               \* position in _convert_with_chunks
  \* ConversionWorker._process_work_item, statement by statement
  ppc,               \* position in _process_work_item
  locals,            \* its local variables
  calls,             \* the calls it made on the store and the engine, in order
  returned,          \* the WorkResult it returned last
  \* AIConverter.convert
  spc,               \* position in convert
  file_idx,          \* convert: position of the for loop in files
  converted_modules  \* convert: converted_modules

lvars == <<dependency_graph, scanned_files, all_files, depends_on, processed,
           levels, cycle_warned, bpc>>

svars == <<redis_available, client_raises, file_hash, conversion, content>>

pvars == <<work_queue, result_queue, stop_event, wpc, witem, wresult, taken,
           emitted>>

wvars == <<opc, total_items, results, completed>>

rvars == <<files, dependency_levels, level_idx, cache_hits, cache_misses,
           modules_created>>

evars == <<conversion_warnings, attempts, run_no>>

cvars == <<definitions, defn_idx, chunks, current_chunk_defs,
           current_chunk_lines, chunk_results, chunk_calls, complete_go_code,
           cpc>>

uvars == <<ppc, locals, calls, returned>>

qvars == <<spc, file_idx, converted_modules>>

vars == <<lvars, svars, call_log, pvars, wvars, rvars, evars, cvars, uvars,
          qvars>>

Workers == 1..NumWorkers

\* the state of the parts a specification does not exercise
StoreIdle ==
  /\ redis_available = FALSE
  /\ client_raises = FALSE
  /\ file_hash = [p \in Paths |-> None]
  /\ conversion = [p \in Paths |-> None]
  /\ content = [p \in Paths |-> "c1"]

PoolIdle ==
  /\ work_queue = <<>>
  /\ result_queue = <<>>
  /\ stop_event = FALSE
  /\ wpc = [w \in Workers |-> "test"]
  /\ witem = [w \in Workers |-> NoItem]
  /\ wresult = [w \in Workers |-> NoItem]
  /\ taken = <<>>
  /\ emitted = <<>>

CallerIdle ==
  /\ opc = "idle"
  /\ total_items = 0
  /\ results = <<>>
  /\ completed = 0
  /\ files = <<>>
  /\ dependency_levels = <<>>
  /\ level_idx = 0
  /\ cache_hits = 0
  /\ cache_misses = 0
  /\ modules_created = 0

EngineIdle ==
  /\ conversion_warnings = 0
  /\ attempts = {}
  /\ run_no = 1

ChunkIdle ==
  /\ definitions = <<>>
  /\ defn_idx = 1
  /\ chunks = <<>>
  /\ current_chunk_defs = <<>>
  /\ current_chunk_lines = 0
  /\ chunk_results = <<>>
  /\ chunk_calls = <<>>
  /\ complete_go_code = <<>>
  /\ cpc = "done"

UnitIdle ==
  /\ ppc = "idle"
  /\ locals = NoLocals
  /\ calls = <<>>
  /\ returned = NoItem

SeqIdle ==
  /\ spc = "done"
  /\ file_idx = 1
  /\ converted_modules = <<>>

LevelsIdle ==
  /\ dependency_graph = <<>>
  /\ scanned_files = <<>>
  /\ all_files = {}
  /\ depends_on = <<>>
  /\ processed = {}
  /\ levels = <<>>
  /\ cycle_warned = FALSE
  /\ bpc = "done"

(***************************************************************************)
(* DependencyScheduler.build_dependency_levels                             *)
(***************************************************************************)
\* lines 260-266: the identifiers of the scanned files
ActualFiles(scanned) ==
  UNION { {scanned[i].path, scanned[i].name, PathStem(scanned[i].name),
           StrPath(scanned[i].path)} : i \in 1..Len(scanned) }

Filtering(scanned) == scanned # <<>>

\* line 279 / 285: "not scanned_files or x in actual_files"
Kept(scanned, x) == ~Filtering(scanned) \/ x \in ActualFiles(scanned)

\* lines 275-286: all_files
BuildAllFiles(graph, scanned) ==
  LET keys == {k \in DOMAIN graph : Kept(scanned, k)}
  IN keys \cup {d \in UNION {graph[k] : k \in keys} : Kept(scanned, d)}

\* lines 273, 277-283: depends_on (a defaultdict: the empty set elsewhere);
\* every reference of a kept key is recorded, kept or not
BuildDependsOn(graph, scanned) ==
  [x \in AllIds |->
     IF x \in DOMAIN graph /\ Kept(scanned, x) THEN graph[x] ELSE {}]

\* lines 300-308: the files with no unprocessed dependency
Eligible(all, dep, done) ==
  {f \in all : f \notin done /\ dep[f] \subseteq done}

\* CurrentLevel without lines 310-317: no unit is added when none is eligible
CurrentLevelNoCycleBranch(all, dep, done) == Eligible(all, dep, done)

\* CurrentLevel with lines 312-313 taking one of the remaining units only
CurrentLevelOneRemaining(all, dep, done) ==
  IF Eligible(all, dep, done) # {}
  THEN Eligible(all, dep, done)
  ELSE {CHOOSE x \in all \ done : TRUE}

\* lines 300-317: current_level of one iteration of the while loop
CurrentLevel(all, dep, done) ==
  IF Eligible(all, dep, done) # {}
  THEN Eligible(all, dep, done)
  ELSE all \ done

LevelsInit ==
  /\ dependency_graph \in Graphs
  /\ scanned_files \in ScannedChoices
  /\ all_files = {}
  /\ depends_on = [x \in AllIds |-> {}]
  /\ processed = {}
  /\ levels = <<>>
  /\ cycle_warned = FALSE
  /\ bpc = "start"
  /\ StoreIdle /\ call_log = <<>> /\ PoolIdle /\ CallerIdle
  /\ EngineIdle /\ ChunkIdle /\ UnitIdle /\ SeqIdle

\* lines 257-296: up to the while loop, the fallback return included
BuildStart ==
  /\ bpc = "start"
  /\ all_files' = BuildAllFiles(dependency_graph, scanned_files)
  /\ depends_on' = BuildDependsOn(dependency_graph, scanned_files)
  /\ processed' = {}
  /\ IF Filtering(scanned_files) /\ all_files' = {}
     THEN /\ levels' = << [i \in 1..Len(scanned_files) |-> scanned_files[i].path] >>
          /\ bpc' = "done"
     ELSE /\ levels' = <<>>
          /\ bpc' = "loop"
  /\ UNCHANGED <<dependency_graph, scanned_files, cycle_warned>>
  /\ UNCHANGED <<svars, call_log, pvars, wvars, rvars, evars, cvars, uvars, qvars>>

\* lines 298-320: one iteration of the while loop
LoopIter ==
  /\ bpc = "loop"
  /\ Cardinality(processed) < Cardinality(all_files)
  /\ LET current_level == CurrentLevel(all_files, depends_on, processed)
     IN /\ levels' = Append(levels, SetToSeq(current_level))
        /\ processed' = processed \cup current_level
        /\ cycle_warned' =
             (cycle_warned \/ Eligible(all_files, depends_on, processed) = {})
  /\ UNCHANGED <<dependency_graph, scanned_files, all_files, depends_on, bpc>>
  /\ UNCHANGED <<svars, call_log, pvars, wvars, rvars, evars, cvars, uvars, qvars>>

\* lines 298, 322-328: the loop ends and the levels are returned
BuildReturn ==
  /\ bpc = "loop"
  /\ ~(Cardinality(processed) < Cardinality(all_files))
  /\ bpc' = "done"
  /\ UNCHANGED <<dependency_graph, scanned_files, all_files, depends_on,
                 processed, levels, cycle_warned>>
  /\ UNCHANGED <<svars, call_log, pvars, wvars, rvars, evars, cvars, uvars, qvars>>

\* the recorded references of u (file_dependencies[u], empty without an entry)
GraphDeps(graph, u) == IF u \in DOMAIN graph THEN graph[u] ELSE {}

RECURSIVE LevelsFrom(_, _, _)
\* lines 295-320: the levels the while loop appends, as sets
LevelsFrom(all, dep, done) ==
  IF Cardinality(done) < Cardinality(all)
  THEN <<CurrentLevel(all, dep, done)>>
         \o LevelsFrom(all, dep, done \cup CurrentLevel(all, dep, done))
  ELSE <<>>

\* lines 246-328: the returned levels, each as a set of identifiers
ReturnedLevels(graph, scanned) ==
  IF Filtering(scanned) /\ BuildAllFiles(graph, scanned) = {}
  THEN << {scanned[i].path : i \in 1..Len(scanned)} >>
  ELSE LevelsFrom(BuildAllFiles(graph, scanned), BuildDependsOn(graph, scanned), {})

(***************************************************************************)
(* Vocabulary of the properties of the levels                              *)
(***************************************************************************)
LevelSet(i) == SeqToSet(levels[i])

Earlier(i) == UNION {LevelSet(j) : j \in 1..(i - 1)}

Placed == UNION {LevelSet(i) : i \in 1..Len(levels)}

\* the positions at which identifier x stands in the returned levels
Occurrences(x) ==
  {<<i, j>> \in (1..Len(levels)) \X (1..Cardinality(AllIds)) :
     j <= Len(levels[i]) /\ levels[i][j] = x}

RECURSIVE ReachN(_, _, _)
ReachN(graph, S, n) ==
  IF n = 0 THEN S
  ELSE ReachN(graph, S \cup UNION {GraphDeps(graph, x) : x \in S}, n - 1)

\* the identifiers u depends on, directly or through other identifiers
Reachable(graph, u) == ReachN(graph, GraphDeps(graph, u), Cardinality(AllIds))

OnCycle(graph, u) == u \in Reachable(graph, u)

CycleOf(graph, u) ==
  {v \in Reachable(graph, u) : u \in Reachable(graph, v)}

Acyclic(graph) == \A u \in DOMAIN graph : ~OnCycle(graph, u)

\* the graph with the references to identifiers outside the scan removed
StripUnknown(graph, scanned) ==
  [k \in DOMAIN graph |-> {d \in graph[k] : Kept(scanned, d)}]

\* the references of u that the scan knows (all of them without a scan)
KnownDeps(u) ==
  {d \in GraphDeps(dependency_graph, u) : Kept(scanned_files, d)}

\* the identifiers that name the scanned file f
NamesOf(f) == {f.path, f.name, PathStem(f.name)}

(***************************************************************************)
(* C1: for an acyclic graph, every dependency of a unit placed in level i  *)
(* is placed in a level j < i, never in the same or a later level (a       *)
(* reference to an identifier outside the scan counts as no dependency).   *)
(***************************************************************************)
C1_DepsInEarlierLevels ==
  (bpc = "done" /\ Acyclic(dependency_graph)) =>
    \A i \in 1..Len(levels) : \A u \in LevelSet(i) : KnownDeps(u) \subseteq Earlier(i)

(***************************************************************************)
(* C2: for an acyclic graph, every scanned unit appears in exactly one     *)
(* level: it is missing from none and stands at exactly one position.      *)
(***************************************************************************)
C2_EveryScannedUnitOnce ==
  (bpc = "done" /\ Acyclic(dependency_graph)) =>
    \A k \in 1..Len(scanned_files) :
      Cardinality(UNION {Occurrences(x) : x \in NamesOf(scanned_files[k])}) = 1

(***************************************************************************)
(* C3: build_dependency_levels terminates on every graph, cyclic ones      *)
(* included: each iteration of the level-building loop places at least one *)
(* new unit of all_files, the function returns, and every schedulable unit *)
(* on a cycle is then in some level.                                       *)
(***************************************************************************)
CycleUnitsPlaced ==
  \A u \in AllIds :
    (OnCycle(dependency_graph, u) /\ Kept(scanned_files, u)) => u \in Placed

C3_CyclicTerminates ==
  /\ [][(bpc = "loop" /\ bpc' = "loop") =>
          (processed' # processed /\ processed \subseteq processed'
             /\ processed' \subseteq all_files)]_vars
  /\ <>(bpc = "done" /\ CycleUnitsPlaced)

C3_Witness ==
  /\ bpc = "done"
  /\ cycle_warned
  /\ Len(levels) >= 2
  /\ \E u \in Placed : OnCycle(dependency_graph, u)

(***************************************************************************)
(* C4 as stated: a unit of level i has all its dependencies in levels      *)
(* 0..i-1, or is a member of a cycle and sits in one level with the other  *)
(* members of that cycle; a unit on no cycle never shares a level with one *)
(* of its dependencies.                                                    *)
(***************************************************************************)
C4_Original ==
  bpc = "done" =>
    \A i \in 1..Len(levels) : \A u \in LevelSet(i) :
      /\ \/ KnownDeps(u) \subseteq Earlier(i)
         \/ /\ OnCycle(dependency_graph, u)
            /\ CycleOf(dependency_graph, u) \subseteq LevelSet(i)
      /\ ~OnCycle(dependency_graph, u) => KnownDeps(u) \cap LevelSet(i) = {}

(***************************************************************************)
(* C4 as amended: a unit of level i has all its dependencies in levels     *)
(* 0..i-1, or level i is the last level, formed with the "circular         *)
(* dependencies" warning from all units that were still unplaced; that     *)
(* level holds every member of every cycle, and it may hold units on no    *)
(* cycle together with their dependencies.                                 *)
(***************************************************************************)
C4_Amended ==
  bpc = "done" =>
    /\ \A i \in 1..Len(levels) : \A u \in LevelSet(i) :
         \/ KnownDeps(u) \subseteq Earlier(i)
         \/ /\ i = Len(levels)
            /\ cycle_warned
            /\ LevelSet(i) = all_files \ Earlier(i)
    /\ \A u \in all_files :
         OnCycle(dependency_graph, u) =>
           (cycle_warned /\ u \in LevelSet(Len(levels)))

C4_Witness ==
  /\ bpc = "done"
  /\ cycle_warned
  /\ Len(levels) >= 2
  /\ \E u \in LevelSet(Len(levels)) :
       /\ ~OnCycle(dependency_graph, u)
       /\ KnownDeps(u) \cap LevelSet(Len(levels)) # {}

(***************************************************************************)
(* C5: with scanned_files supplied, references to identifiers outside the  *)
(* scan are ignored: the returned levels are those of the graph without    *)
(* these references, a known unit with only unknown dependencies is in     *)
(* level 0, and a graph that is acyclic without them is not handled as     *)
(* cyclic.                                                                 *)
(***************************************************************************)
C5_UnknownRefsIgnored ==
  (bpc = "done" /\ Filtering(scanned_files)) =>
    LET stripped == StripUnknown(dependency_graph, scanned_files)
    IN /\ [i \in 1..Len(levels) |-> LevelSet(i)]
            = ReturnedLevels(stripped, scanned_files)
       /\ \A u \in all_files :
            (GraphDeps(dependency_graph, u) # {} /\ KnownDeps(u) = {})
              => u \in LevelSet(1)
       /\ Acyclic(stripped) => ~cycle_warned

LevelsNext == BuildStart \/ LoopIter \/ BuildReturn

SpecLevels == LevelsInit /\ [][LevelsNext]_vars

\* build_dependency_levels runs to its return: the calling thread keeps going
SpecLevelsFair == SpecLevels /\ WF_vars(LevelsNext)

(***************************************************************************)
(* RedisStore                                                              *)
(***************************************************************************)
\* FileChanged without line 100: a changed file keeps its old digest
FileChangedNoUpdate(avail, hashes, path, c) ==
  IF ~avail
  THEN [ret |-> TRUE, file_hash |-> hashes]
  ELSE IF hashes[path] = None
       THEN [ret |-> TRUE, file_hash |-> [hashes EXCEPT ![path] = Hash(c)]]
       ELSE [ret |-> hashes[path] # Hash(c), file_hash |-> hashes]

\* FileChanged answering "unchanged" when the store is not reached
FileChangedUnreachedFalse(avail, hashes, path, c) ==
  IF ~avail
  THEN [ret |-> FALSE, file_hash |-> hashes]
  ELSE IF hashes[path] = None \/ hashes[path] # Hash(c)
       THEN [ret |-> TRUE, file_hash |-> [hashes EXCEPT ![path] = Hash(c)]]
       ELSE [ret |-> FALSE, file_hash |-> hashes]

\* RedisStore.file_changed: the value returned and the file_hash keys after.
\* avail: the call reaches the store. It does not without a client
\* (lines 82-83) and when the client raises (lines 105-107).
FileChanged(avail, hashes, path, c) ==
  IF ~avail
  THEN [ret |-> TRUE, file_hash |-> hashes]
  ELSE IF hashes[path] = None
       THEN [ret |-> TRUE, file_hash |-> [hashes EXCEPT ![path] = Hash(c)]]
       ELSE IF hashes[path] # Hash(c)
            THEN [ret |-> TRUE, file_hash |-> [hashes EXCEPT ![path] = Hash(c)]]
            ELSE [ret |-> FALSE, file_hash |-> hashes]

\* RedisStore.get_conversion_output: the stored go_code, or None (without a
\* client, lines 217-218, and when the client raises, lines 227-229)
GetConversionOutput(avail, conv, path) ==
  IF ~avail THEN None ELSE conv[path]

\* StoreConversionOutput that writes no key
StoreConversionOutputNothing(avail, conv, path, go_code) == conv

\* RedisStore.store_conversion_output: the conversion keys after the call
\* (nothing is stored without a client, lines 243-244, and when the client
\* raises, lines 256-258)
StoreConversionOutput(avail, conv, path, go_code) ==
  IF ~avail THEN conv ELSE [conv EXCEPT ![path] = go_code]

\* a call of the store gets an answer: there is a client and it does not raise
StoreAnswers == redis_available /\ ~client_raises

\* a caller asks the store whether a file changed
CallFileChanged(path, c) ==
  /\ Len(call_log) < MaxCalls
  /\ LET r == FileChanged(StoreAnswers, file_hash, path, c)
     IN /\ file_hash' = r.file_hash
        /\ call_log' = Append(call_log,
             [path |-> path, content |-> c, ret |-> r.ret,
              before |-> file_hash[path], after |-> r.file_hash[path]])
  /\ UNCHANGED <<redis_available, client_raises, conversion, content>>
  /\ UNCHANGED <<evars, cvars, lvars, uvars, qvars, pvars, wvars, rvars>>

CacheInit ==
  /\ redis_available \in BOOLEAN
  /\ client_raises \in BOOLEAN
  /\ file_hash = [p \in Paths |-> None]
  /\ conversion = [p \in Paths |-> None]
  /\ content = [p \in Paths |-> "c1"]
  /\ call_log = <<>>
  /\ LevelsIdle /\ UnitIdle /\ SeqIdle /\ PoolIdle /\ CallerIdle /\ EngineIdle /\ ChunkIdle

CacheNext == \E path \in Paths, c \in Contents : CallFileChanged(path, c)

SpecCache == CacheInit /\ [][CacheNext]_vars

(***************************************************************************)
(* ConversionWorker                                                        *)
(***************************************************************************)
\* what reading the file and calling the engine can end in: the engine's
\* Go code, no code (_convert_file_with_model returns None), or an exception
\* raised by open()
Outcomes == {"code", "none", "raise"}

\* ConversionWorker._process_work_item: the WorkResult and the store after
ProcessWorkItem(item, outcome, avail, hashes, conv, c) ==
  LET path == item.file_info.path
      fc == IF avail THEN FileChanged(avail, hashes, path, c)
            ELSE [ret |-> TRUE, file_hash |-> hashes]
      cached_result == IF avail /\ ~fc.ret
                       THEN GetConversionOutput(avail, conv, path)
                       ELSE None
      go_code == IF outcome = "code" THEN Translate(c) ELSE None
      model_used == IF item.use_fast_model THEN "fast" ELSE "smart"
  IN IF outcome = "raise"
     THEN [result |-> [id |-> item.id, level |-> item.level,
                       file_path |-> path, go_code |-> None,
                       success |-> FALSE, error |-> TRUE, cached |-> FALSE,
                       model_used |-> "error"],
           file_hash |-> hashes, conversion |-> conv]
     ELSE IF cached_result # None
     THEN [result |-> [id |-> item.id, level |-> item.level,
                       file_path |-> path, go_code |-> cached_result,
                       success |-> TRUE, error |-> FALSE, cached |-> TRUE,
                       model_used |-> "cache"],
           file_hash |-> fc.file_hash, conversion |-> conv]
     ELSE [result |-> [id |-> item.id, level |-> item.level,
                       file_path |-> path, go_code |-> go_code,
                       success |-> TRUE, error |-> FALSE, cached |-> FALSE,
                       model_used |-> model_used],
           file_hash |-> fc.file_hash,
           conversion |-> IF avail /\ go_code # None
                          THEN StoreConversionOutput(avail, conv, path, go_code)
                          ELSE conv]

\* lines 123, 146-151: what the processing of a unit that the cache does not
\* serve does. _convert_file_with_model makes one request for the whole file
\* (lines 864-869), whatever its size, and no request when open() raises.
Attempt(item, outcome, run) ==
  [run |-> run, oversized |-> item.file_info.lines > MaxChunkLines,
   kind |-> "whole", outcome |-> outcome,
   calls |-> IF outcome = "raise" THEN 0 ELSE 1]

\* Queue.put
QueuePut(q, x) == Append(q, x)

\* ResultPut that puts nothing for a failed item
ResultPutDropsFailure(q, r) == IF r.success THEN Append(q, r) ELSE q

\* line 91: result_queue.put(result)
ResultPut(q, r) == QueuePut(q, r)

\* line 78: the test of the stop event at the top of the worker loop
WorkerTest(w) ==
  /\ wpc[w] = "test"
  /\ wpc' = [wpc EXCEPT ![w] = IF stop_event THEN "exit" ELSE "get"]
  /\ UNCHANGED <<work_queue, result_queue, stop_event, witem, wresult, taken,
                 emitted>>
  /\ UNCHANGED <<evars, cvars, lvars, uvars, qvars, svars, call_log, wvars, rvars>>

\* lines 81-85: work_queue.get returns a work item
WorkerGet(w) ==
  /\ wpc[w] = "get"
  /\ work_queue # <<>>
  /\ witem' = [witem EXCEPT ![w] = Head(work_queue)]
  /\ work_queue' = Tail(work_queue)
  /\ taken' = [taken EXCEPT ![Head(work_queue).id] = @ + 1]
  /\ wpc' = [wpc EXCEPT ![w] = "work"]
  /\ UNCHANGED <<result_queue, stop_event, wresult, emitted>>
  /\ UNCHANGED <<evars, cvars, lvars, uvars, qvars, svars, call_log, wvars, rvars>>

\* lines 81, 100-102: work_queue.get times out on the empty queue
WorkerEmpty(w) ==
  /\ wpc[w] = "get"
  /\ work_queue = <<>>
  /\ wpc' = [wpc EXCEPT ![w] = "test"]
  /\ UNCHANGED <<work_queue, result_queue, stop_event, witem, wresult, taken,
                 emitted>>
  /\ UNCHANGED <<evars, cvars, lvars, uvars, qvars, svars, call_log, wvars, rvars>>

\* line 88: _process_work_item
WorkerProcess(w, outcome) ==
  /\ wpc[w] = "work"
  /\ LET r == ProcessWorkItem(witem[w], outcome, StoreAnswers, file_hash,
                              conversion, content[witem[w].file_info.path])
     IN /\ wresult' = [wresult EXCEPT ![w] = r.result]
        /\ file_hash' = r.file_hash
        /\ conversion' = r.conversion
        /\ attempts' = IF r.result.cached THEN attempts
                       ELSE attempts \cup {Attempt(witem[w], outcome, run_no)}
  /\ wpc' = [wpc EXCEPT ![w] = "put"]
  /\ UNCHANGED <<work_queue, result_queue, stop_event, witem, taken, emitted>>
  /\ UNCHANGED <<conversion_warnings, run_no, cvars, lvars, uvars, qvars, redis_available,
                 client_raises, content, call_log, wvars, rvars>>

\* lines 91-98: the result is put, the worker is idle again
WorkerPut(w) ==
  /\ wpc[w] = "put"
  /\ result_queue' = ResultPut(result_queue, wresult[w])
  /\ emitted' = [emitted EXCEPT ![wresult[w].id] =
                   @ + Len(result_queue') - Len(result_queue)]
  /\ witem' = [witem EXCEPT ![w] = NoItem]
  /\ wresult' = [wresult EXCEPT ![w] = NoItem]
  /\ wpc' = [wpc EXCEPT ![w] = "test"]
  /\ UNCHANGED <<work_queue, stop_event, taken>>
  /\ UNCHANGED <<evars, cvars, lvars, uvars, qvars, svars, call_log, wvars, rvars>>

WorkerStep ==
  \E w \in Workers :
    \/ WorkerTest(w)
    \/ WorkerGet(w)
    \/ WorkerEmpty(w)
    \/ \E outcome \in Outcomes : WorkerProcess(w, outcome)
    \/ WorkerPut(w)

(***************************************************************************)
(* WorkerPool                                                              *)
(***************************************************************************)
\* line 277: the workers whose thread is alive
AliveWorkers == {w \in Workers : wpc[w] # "exit"}

\* WaitDone leaving the loop one result early
WaitDoneOffByOne(n, total) == ~(n + 1 < total)

\* WaitDone waiting for one result more than there are work items
WaitDoneOneMore(n, total) == ~(n < total + 1)

\* line 258: the test that ends the loop of wait_for_completion
WaitDone(n, total) == ~(n < total)

\* lines 260-262: result_queue.get returns a result
WaitGet ==
  /\ opc = "wait"
  /\ result_queue # <<>>
  /\ results' = Append(results, Head(result_queue))
  /\ result_queue' = Tail(result_queue)
  /\ completed' = completed + 1
  /\ opc' = IF WaitDone(completed', total_items) THEN "returned" ELSE "wait"
  /\ UNCHANGED <<total_items, work_queue, stop_event, wpc, witem, wresult,
                 taken, emitted>>
  /\ UNCHANGED <<evars, cvars, lvars, uvars, qvars, svars, call_log, rvars>>

\* lines 260, 275: result_queue.get times out on the empty queue
WaitEmpty ==
  /\ opc = "wait"
  /\ result_queue = <<>>
  /\ opc' = "alive"
  /\ UNCHANGED <<total_items, results, completed>>
  /\ UNCHANGED <<evars, cvars, lvars, uvars, qvars, svars, call_log, pvars, rvars>>

\* lines 276-280: the loop is left when no worker is alive
WaitCheckAlive ==
  /\ opc = "alive"
  /\ opc' = IF Cardinality(AliveWorkers) = 0 THEN "returned" ELSE "wait"
  /\ UNCHANGED <<total_items, results, completed>>
  /\ UNCHANGED <<evars, cvars, lvars, uvars, qvars, svars, call_log, pvars, rvars>>

WaitStep == WaitGet \/ WaitEmpty \/ WaitCheckAlive

(***************************************************************************)
(* AIConverter.convert_parallel                                            *)
(***************************************************************************)
\* lines 936-940: the keys under which file_map holds a file
FileMapKeys(f) == {f.path, f.name, PathStem(f.name)}

InFileMap(fs, key) == \E i \in 1..Len(fs) : key \in FileMapKeys(fs[i])

\* file_map[key], as the position of the file in the list: a later file of
\* the list replaces an earlier one
FileMapGet(fs, key) ==
  LET at == {i \in 1..Len(fs) : key \in FileMapKeys(fs[i])}
  IN CHOOSE i \in at : \A j \in at : j <= i

\* lines 954-967: the file_info an identifier of a level resolves to, as its
\* position in the list of files; 0 when file_info stays None
Lookup(fs, ident) ==
  IF InFileMap(fs, ident) THEN FileMapGet(fs, ident)
  ELSE IF InFileMap(fs, StrPath(ident)) THEN FileMapGet(fs, StrPath(ident))
  ELSE IF InFileMap(fs, PathName(ident)) THEN FileMapGet(fs, PathName(ident))
  ELSE IF InFileMap(fs, PathStem(ident)) THEN FileMapGet(fs, PathStem(ident))
  ELSE 0

RECURSIVE LevelItems(_, _, _, _)
\* lines 951-982: the work items of one level; first is the number of the
\* first item created
LevelItems(fs, level_files, idx, first) ==
  IF level_files = <<>> THEN <<>>
  ELSE LET at == Lookup(fs, Head(level_files))
       IN IF at = 0
          THEN LevelItems(fs, Tail(level_files), idx, first)
          ELSE << [id |-> first, file_info |-> fs[at], level |-> idx,
                   use_fast_model |-> fs[at].lines < FastModelLines] >>
                 \o LevelItems(fs, Tail(level_files), idx, first + 1)

Zeros(n) == [i \in 1..n |-> 0]

\* the number of results of rs that satisfy the test
CountCached(rs) == Cardinality({i \in 1..Len(rs) : rs[i].cached})

\* CountMisses counting a miss only for a result that brought Go code
CountMissesWithCode(rs) ==
  Cardinality({i \in 1..Len(rs) : ~rs[i].cached /\ rs[i].go_code # None})

\* lines 1001-1002: every result that is no cache hit is a cache miss
CountMisses(rs) == Cardinality({i \in 1..Len(rs) : ~rs[i].cached})

CountWritten(rs) ==
  Cardinality({i \in 1..Len(rs) : rs[i].success /\ rs[i].go_code # None})

\* lines 946-993: the work items of the next level are created and submitted,
\* and wait_for_completion is entered; a level without work items is skipped
RunLevel ==
  /\ opc = "level"
  /\ level_idx < Len(dependency_levels)
  /\ LET work_items == LevelItems(files, dependency_levels[level_idx + 1],
                                  level_idx, Len(taken) + 1)
     IN IF work_items = <<>>
        THEN /\ level_idx' = level_idx + 1
             /\ UNCHANGED <<opc, total_items, results, completed, work_queue,
                            taken, emitted>>
        ELSE /\ work_queue' = work_queue \o work_items
             /\ taken' = taken \o Zeros(Len(work_items))
             /\ emitted' = emitted \o Zeros(Len(work_items))
             /\ total_items' = Len(work_items)
             /\ results' = <<>>
             /\ completed' = 0
             /\ opc' = "wait"
             /\ UNCHANGED level_idx
  /\ UNCHANGED <<result_queue, stop_event, wpc, witem, wresult>>
  /\ UNCHANGED <<files, dependency_levels, cache_hits, cache_misses,
                 modules_created>>
  /\ UNCHANGED <<evars, cvars, lvars, uvars, qvars, svars, call_log>>

\* lines 996-1039: the results of the level are counted and written; the
\* list of results is not read again
RunCollect ==
  /\ opc = "returned"
  /\ cache_hits' = cache_hits + CountCached(results)
  /\ cache_misses' = cache_misses + CountMisses(results)
  /\ modules_created' = modules_created + CountWritten(results)
  /\ level_idx' = level_idx + 1
  /\ opc' = "level"
  /\ total_items' = 0
  /\ results' = <<>>
  /\ completed' = 0
  /\ UNCHANGED <<files, dependency_levels>>
  /\ UNCHANGED <<evars, cvars, lvars, uvars, qvars, svars, call_log, pvars>>

\* lines 1042, 289: after the last level, shutdown sets the stop event
RunShutdown ==
  /\ opc = "level"
  /\ level_idx = Len(dependency_levels)
  /\ stop_event' = TRUE
  /\ opc' = "join"
  /\ UNCHANGED <<work_queue, result_queue, wpc, witem, wresult, taken, emitted>>
  /\ UNCHANGED <<total_items, results, completed>>
  /\ UNCHANGED <<evars, cvars, lvars, uvars, qvars, svars, call_log, rvars>>

\* lines 292-293, 1044-1079: the joins end or time out, the summary is returned
RunReturn ==
  /\ opc = "join"
  /\ opc' = "done"
  /\ UNCHANGED <<total_items, results, completed>>
  /\ UNCHANGED <<evars, cvars, lvars, uvars, qvars, svars, call_log, pvars, rvars>>

\* the stores a run can start with: no client, an empty store, the store a
\* successful earlier run over the same contents has left, and that store
\* with a server that went away (every call of the client raises)
StoreChoices ==
  { [avail |-> FALSE, raises |-> FALSE, file_hash |-> [p \in Paths |-> None],
     conversion |-> [p \in Paths |-> None]],
    [avail |-> TRUE, raises |-> FALSE, file_hash |-> [p \in Paths |-> None],
     conversion |-> [p \in Paths |-> None]],
    [avail |-> TRUE, raises |-> FALSE,
     file_hash |-> [p \in Paths |-> Hash("c1")],
     conversion |-> [p \in Paths |-> Translate("c1")]],
    [avail |-> TRUE, raises |-> TRUE,
     file_hash |-> [p \in Paths |-> Hash("c1")],
     conversion |-> [p \in Paths |-> Translate("c1")]] }

StoreInit ==
  /\ \E st \in StoreChoices :
       /\ redis_available = st.avail
       /\ client_raises = st.raises
       /\ file_hash = st.file_hash
       /\ conversion = st.conversion
  /\ content = [p \in Paths |-> "c1"]
  /\ call_log = <<>>

\* the levels a run is given: lists as build_dependency_levels returns them
\* (identifiers by path or by name), one with an identifier of no scanned file
LevelPool ==
  { <<"src/a.py", "b.py">>, <<"a.py", "os">> }

RECURSIVE SeqsUpTo(_, _)
\* the sequences over S of length at most n
SeqsUpTo(S, n) ==
  IF n = 0 THEN {<<>>}
  ELSE LET P == SeqsUpTo(S, n - 1) IN P \cup {Append(p, x) : p \in P, x \in S}

\* a new AIConverter and a new WorkerPool before convert_parallel
RunStart ==
  /\ files = AllFiles
  /\ level_idx = 0
  /\ cache_hits = 0
  /\ cache_misses = 0
  /\ modules_created = 0
  /\ opc = "level"
  /\ total_items = 0
  /\ results = <<>>
  /\ completed = 0
  /\ StoreInit /\ PoolIdle /\ LevelsIdle /\ UnitIdle /\ SeqIdle /\ EngineIdle /\ ChunkIdle

RunInit == RunStart /\ dependency_levels \in SeqsUpTo(LevelPool, MaxLevels)

RunNext ==
  WorkerStep \/ WaitStep \/ RunLevel \/ RunCollect \/ RunShutdown \/ RunReturn

\* convert_parallel driving a pool of NumWorkers workers
SpecRun == RunInit /\ [][RunNext]_vars

\* ConversionWorker.run of worker w: the steps of its thread
WorkerRun(w) ==
  \/ WorkerTest(w)
  \/ WorkerGet(w)
  \/ WorkerEmpty(w)
  \/ \E outcome \in Outcomes : WorkerProcess(w, outcome)
  \/ WorkerPut(w)

\* the steps of the thread that calls convert_parallel
CallerRun == WaitStep \/ RunLevel \/ RunCollect \/ RunShutdown \/ RunReturn

\* the runs whose end is checked: the store has a client, whose calls answer
\* or raise; every level holds two files, one by path and one by name, and an
\* identifier of no scanned file
RunFairInit ==
  /\ RunStart
  /\ redis_available
  /\ dependency_levels \in SeqsUpTo({<<"src/a.py", "b.py", "os">>}, MaxLevels)

\* convert_parallel with threads that are scheduled again and again: the
\* calling thread and every worker thread keep going, get() with a timeout
\* and the request with its timeout of 300 s return. Every step of the
\* caller changes opc, completed or level_idx, every step of a worker its
\* position.
SpecRunFair ==
  /\ RunFairInit
  /\ [][RunNext]_vars
  /\ WF_<<opc, completed, level_idx>>(CallerRun)
  /\ \A w \in Workers : WF_wpc(WorkerRun(w))

(***************************************************************************)
(* The pipeline run a second time over the same files and levels           *)
(***************************************************************************)
\* the command is started again: a new AIConverter and a new WorkerPool over
\* the store the first run has left
RunAgain ==
  /\ opc = "done"
  /\ run_no = 1
  /\ run_no' = 2
  /\ conversion_warnings' = 0
  /\ level_idx' = 0
  /\ cache_hits' = 0
  /\ cache_misses' = 0
  /\ modules_created' = 0
  /\ opc' = "level"
  /\ total_items' = 0
  /\ results' = <<>>
  /\ completed' = 0
  /\ work_queue' = <<>>
  /\ result_queue' = <<>>
  /\ stop_event' = FALSE
  /\ wpc' = [w \in Workers |-> "test"]
  /\ witem' = [w \in Workers |-> NoItem]
  /\ wresult' = [w \in Workers |-> NoItem]
  /\ taken' = <<>>
  /\ emitted' = <<>>
  /\ UNCHANGED <<files, dependency_levels, attempts>>
  /\ UNCHANGED <<cvars, lvars, uvars, qvars, svars, call_log>>

\* the levels of the runs that are repeated: one level, two levels, a level
\* of identifiers of no scanned file, and a level that comes twice
TwiceLevels ==
  { << <<"src/a.py", "b.py">> >>,
    << <<"a.py", "os">>, <<"src/a.py", "b.py">> >>,
    << <<"os">>, <<"src/a.py", "b.py">> >>,
    << <<"src/a.py", "b.py">>, <<"src/a.py", "b.py">> >> }

TwiceInit == RunStart /\ StoreAnswers /\ dependency_levels \in TwiceLevels

TwiceNext == RunNext \/ RunAgain

SpecTwice == TwiceInit /\ [][TwiceNext]_vars

(***************************************************************************)
(* WorkerPool under any caller: submit_work, wait_for_completion and       *)
(* shutdown called in any order                                            *)
(***************************************************************************)
\* submit_work([item])
ClientSubmit(f) ==
  /\ opc = "idle"
  /\ Len(taken) < MaxItems
  /\ work_queue' = QueuePut(work_queue,
       [id |-> Len(taken) + 1, file_info |-> f, level |-> 0,
        use_fast_model |-> f.lines < FastModelLines])
  /\ taken' = taken \o Zeros(1)
  /\ emitted' = emitted \o Zeros(1)
  /\ UNCHANGED <<result_queue, stop_event, wpc, witem, wresult>>
  /\ UNCHANGED <<evars, cvars, lvars, uvars, qvars, svars, call_log, wvars, rvars>>

\* wait_for_completion(n) is entered (lines 255-258)
ClientWait(n) ==
  /\ opc = "idle"
  /\ total_items' = n
  /\ results' = <<>>
  /\ completed' = 0
  /\ opc' = IF WaitDone(0, n) THEN "returned" ELSE "wait"
  /\ UNCHANGED <<evars, cvars, lvars, uvars, qvars, svars, call_log, pvars, rvars>>

\* the caller has the list wait_for_completion returned (line 282)
ClientTake ==
  /\ opc = "returned"
  /\ opc' = "idle"
  /\ UNCHANGED <<total_items, results, completed>>
  /\ UNCHANGED <<evars, cvars, lvars, uvars, qvars, svars, call_log, pvars, rvars>>

\* shutdown(): the stop event is set, the joins end or time out
ClientShutdown ==
  /\ opc = "idle"
  /\ ~stop_event
  /\ stop_event' = TRUE
  /\ UNCHANGED <<work_queue, result_queue, wpc, witem, wresult, taken, emitted>>
  /\ UNCHANGED <<evars, cvars, lvars, uvars, qvars, svars, call_log, wvars, rvars>>

PoolInit ==
  /\ files = <<FileA, FileB>>
  /\ dependency_levels = <<>>
  /\ level_idx = 0
  /\ cache_hits = 0
  /\ cache_misses = 0
  /\ modules_created = 0
  /\ opc = "idle"
  /\ total_items = 0
  /\ results = <<>>
  /\ completed = 0
  /\ redis_available = TRUE
  /\ client_raises = FALSE
  /\ file_hash = [p \in Paths |-> None]
  /\ conversion = [p \in Paths |-> None]
  /\ content = [p \in Paths |-> "c1"]
  /\ call_log = <<>>
  /\ PoolIdle /\ LevelsIdle /\ UnitIdle /\ SeqIdle /\ EngineIdle /\ ChunkIdle

PoolNext ==
  \/ WorkerStep
  \/ WaitStep
  \/ \E f \in {FileA, FileB} : ClientSubmit(f)
  \/ \E n \in 1..MaxItems : ClientWait(n)
  \/ ClientTake
  \/ ClientShutdown

SpecPool == PoolInit /\ [][PoolNext]_vars

(***************************************************************************)
(* Vocabulary of the properties of the pool                                *)
(***************************************************************************)
\* the workers that hold a work item
Busy == {w \in Workers : wpc[w] \in {"work", "put"}}

\* the work items queued or in progress
InFlight == SeqToSet(work_queue) \cup {witem[w] : w \in Busy}

ItemIds == 1..Len(taken)

Queued(id) == \E i \in 1..Len(work_queue) : work_queue[i].id = id

Held(id) == \E w \in Busy : witem[w].id = id

\* how often a result of item id stands in the sequence rs
ResultsOf(rs, id) == Cardinality({i \in 1..Len(rs) : rs[i].id = id})

(***************************************************************************)
(* C6: in convert_parallel the levels are strictly ordered: every work     *)
(* item that is queued or in progress belongs to the level whose           *)
(* wait_for_completion has not returned yet, so no item of level i+1 is    *)
(* submitted, dequeued or processed while an item of level i is queued or  *)
(* in progress.                                                            *)
(***************************************************************************)
C6_LevelsStrictlyOrdered ==
  /\ \A x \in InFlight : x.level = level_idx /\ opc \in {"wait", "alive"}
  /\ \A i \in 1..Len(result_queue) :
       result_queue[i].level = level_idx /\ opc \in {"wait", "alive"}

C6_Witness ==
  /\ level_idx = 1
  /\ Cardinality(Busy) = 2
  /\ \A w \in Busy : witem[w].level = 1

(***************************************************************************)
(* C7: every submitted work item is dequeued by one worker once and gets   *)
(* exactly one result on the result queue, whatever its processing ends    *)
(* in: never two dequeues, never two results, a result once the worker is  *)
(* through with the item, and a result for every submitted item when       *)
(* convert_parallel returns.                                               *)
(***************************************************************************)
C7_ExactlyOnce ==
  /\ Len(emitted) = Len(taken)
  /\ \A id \in ItemIds :
       /\ taken[id] <= 1
       /\ emitted[id] <= taken[id]
       /\ Queued(id) => taken[id] = 0
       /\ Cardinality({w \in Busy : witem[w].id = id}) <= 1
       /\ (taken[id] = 1 /\ ~Held(id)) => emitted[id] = 1
       /\ ResultsOf(result_queue, id) <= emitted[id]
       /\ opc = "done" => (taken[id] = 1 /\ emitted[id] = 1)

C7_Witness ==
  /\ opc = "returned"
  /\ Len(results) = 2
  /\ \E i, j \in 1..Len(results) :
       /\ results[i].cached
       /\ ~results[j].success
       /\ emitted[results[i].id] = 1
       /\ emitted[results[j].id] = 1

(***************************************************************************)
(* C8: wait_for_completion(n) returns exactly n results while a worker is  *)
(* alive, never more than n, and when it returns early every result        *)
(* already put on the result queue is in the returned list.                *)
(***************************************************************************)
C8_EarlyReturnHoldsEveryResult ==
  opc = "returned" =>
    /\ AliveWorkers # {} => Len(results) = total_items
    /\ Len(results) <= total_items
    /\ Len(results) < total_items => result_queue = <<>>

(***************************************************************************)
(* C9: no worker dequeues a work item from the work queue after shutdown   *)
(* has set the stop event.                                                 *)
(***************************************************************************)
C9_NoDequeueAfterStop ==
  [][stop_event => \A id \in ItemIds : taken'[id] = taken[id]]_vars

(***************************************************************************)
(* C10: with the store available, file_changed returns true exactly when   *)
(* no digest is stored for the path or the stored digest differs from the  *)
(* digest of the content passed, and the digest stored after the call is   *)
(* that of the content; so the first call for a path returns true, a call  *)
(* with the content of the call before returns false, and a call with      *)
(* another content returns true.                                           *)
(***************************************************************************)
\* the call before call k for the same path (0: there is none)
PrevCall(k) ==
  LET before == {j \in 1..(k - 1) : call_log[j].path = call_log[k].path}
  IN IF before = {} THEN 0 ELSE CHOOSE j \in before : \A i \in before : i <= j

C10_ChangedContract ==
  StoreAnswers =>
    /\ \A k \in 1..Len(call_log) :
         LET e == call_log[k]
         IN /\ e.ret = (e.before = None \/ e.before # Hash(e.content))
            /\ e.after = Hash(e.content)
            /\ e.before = IF PrevCall(k) = 0 THEN None
                          ELSE call_log[PrevCall(k)].after
            /\ e.ret = (PrevCall(k) = 0
                          \/ call_log[PrevCall(k)].content # e.content)
    /\ \A p \in Paths :
         \A k \in 1..Len(call_log) :
           (call_log[k].path = p /\ \A j \in (k + 1)..Len(call_log) :
                                      call_log[j].path # p)
             => file_hash[p] = Hash(call_log[k].content)

C10_Witness ==
  /\ StoreAnswers
  /\ Len(call_log) = 3
  /\ \A k \in 1..3 : call_log[k].path = call_log[1].path
  /\ call_log[1].content = call_log[2].content
  /\ call_log[3].content # call_log[2].content
  /\ <<call_log[1].ret, call_log[2].ret, call_log[3].ret>> = <<TRUE, FALSE, TRUE>>

(***************************************************************************)
(* C11: while the store is not reached (no client, or every call of the    *)
(* client raises), file_changed returns true for every path and content,   *)
(* get_conversion_output returns None, store_conversion_output stores      *)
(* nothing, no step changes a key of the store, no result is a cache hit   *)
(* and the run ends with cache_hits = 0.                                   *)
(***************************************************************************)
\* the results that exist: held by a worker, queued, or collected
ResultsAbout ==
  {wresult[w] : w \in {v \in Workers : wpc[v] = "put"}}
    \cup SeqToSet(result_queue) \cup SeqToSet(results)

UnreachedAnswers ==
  \A p \in Paths, c \in Contents :
    /\ FileChanged(StoreAnswers, file_hash, p, c)
         = [ret |-> TRUE, file_hash |-> file_hash]
    /\ GetConversionOutput(StoreAnswers, conversion, p) = None
    /\ StoreConversionOutput(StoreAnswers, conversion, p, Translate(c))
         = conversion

C11_UnreachableStore ==
  /\ [](~StoreAnswers =>
          /\ UnreachedAnswers
          /\ cache_hits = 0
          /\ \A r \in ResultsAbout : ~r.cached)
  /\ [][~StoreAnswers => (file_hash' = file_hash /\ conversion' = conversion)]_vars

C11_Witness ==
  /\ opc = "done"
  /\ client_raises
  /\ \E p \in Paths : conversion[p] # None
  /\ cache_hits = 0
  /\ cache_misses >= 2
  /\ modules_created >= 1

(***************************************************************************)
(* C12: when the pipeline runs a second time over the same files with      *)
(* unchanged contents (every file is read as in the first run), the store  *)
(* answering and every unit of the first run translated with success,      *)
(* every result of the second run is a cache hit (cache_misses = 0) and    *)
(* the second run makes no request to the engine.                          *)
(***************************************************************************)
FirstRunSucceeded == \A a \in attempts : a.run = 1 => a.outcome = "code"

\* no open() of a source file has raised
FilesRead == \A a \in attempts : a.outcome # "raise"

C12_SecondRunAllHits ==
  (run_no = 2 /\ FirstRunSucceeded /\ FilesRead) =>
    /\ \A a \in attempts : a.run = 1
    /\ cache_misses = 0
    /\ \A r \in ResultsAbout : r.cached /\ r.go_code # None

C12_Witness ==
  /\ run_no = 2
  /\ opc = "done"
  /\ FirstRunSucceeded
  /\ Cardinality(attempts) >= 2
  /\ cache_hits >= 2
  /\ modules_created = cache_hits

(***************************************************************************)
(* FileChunker, and AIConverter._convert_with_chunks: the conversion of an *)
(* oversized file chunk by chunk                                           *)
(***************************************************************************)
\* the shapes of the top-level definitions of a file: functions of 200 to
\* 600 lines, a class of 600 lines whose two methods of 290 lines follow a
\* header of 20 lines, and a class of 600 lines without methods
DeclShapes ==
  { [type |-> "function", lines |-> 200, methods |-> <<>>],
    [type |-> "function", lines |-> 300, methods |-> <<>>],
    [type |-> "function", lines |-> 450, methods |-> <<>>],
    [type |-> "function", lines |-> 500, methods |-> <<>>],
    [type |-> "function", lines |-> 600, methods |-> <<>>],
    [type |-> "class", lines |-> 600, methods |-> <<290, 290>>],
    [type |-> "class", lines |-> 600, methods |-> <<>>] }

\* the lines that belong to no definition (blank lines, statements) in front
\* of a definition
Gaps == {0, 2}

SourceDecls ==
  { [type |-> d.type, lines |-> d.lines, methods |-> d.methods, gap |-> g] :
      d \in DeclShapes, g \in Gaps }

\* the files: at most MaxDecls top-level definitions one after the other
SourceFiles == SeqsUpTo(SourceDecls, MaxDecls)

RECURSIVE SumSeq(_)
SumSeq(s) == IF s = <<>> THEN 0 ELSE Head(s) + SumSeq(Tail(s))

RECURSIVE LinesBefore(_, _)
\* the number of lines of src up to the end of its n-th definition
LinesBefore(src, n) ==
  IF n = 0 THEN 0 ELSE LinesBefore(src, n - 1) + src[n].gap + src[n].lines

\* file_info['lines']
FileLines(src) == LinesBefore(src, Len(src))

RECURSIVE SortSet(_)
\* the numbers of S in ascending order
SortSet(S) ==
  IF S = {} THEN <<>>
  ELSE LET m == CHOOSE x \in S : \A y \in S : x <= y
       IN <<m>> \o SortSet(S \ {m})

\* _extract_definitions: the top-level functions and classes in the order of
\* the source, with node.lineno and node.end_lineno; 'node' is kept as the
\* methods of a class (node.body). The definition at position i is named
\* 10 * i and its j-th method 10 * i + j.
ExtractDefinitions(src) ==
  [i \in 1..Len(src) |->
     LET start == LinesBefore(src, i - 1) + src[i].gap + 1
         header == src[i].lines - SumSeq(src[i].methods)
     IN [type |-> src[i].type,
         name |-> 10 * i,
         start_line |-> start,
         end_line |-> start + src[i].lines - 1,
         methods |->
           [j \in 1..Len(src[i].methods) |->
              LET ms == start + header
                          + SumSeq(SubSeq(src[i].methods, 1, j - 1))
              IN [type |-> "method",
                  name |-> 10 * i + j,
                  start_line |-> ms,
                  end_line |-> ms + src[i].methods[j] - 1]]]]

\* code.splitlines(): of the lines of the file the model keeps those that
\* open a definition or a method, each under its line number
SourceLines(defs) ==
  {[line |-> defs[i].start_line, name |-> defs[i].name] : i \in 1..Len(defs)}
    \cup UNION {{[line |-> defs[i].methods[j].start_line,
                  name |-> defs[i].methods[j].name] :
                    j \in 1..Len(defs[i].methods)} : i \in 1..Len(defs)}

\* ''.join(lines[start_line - 1:end_line])
Slice(lines, start_line, end_line) ==
  SortSet({l.name : l \in {m \in lines : /\ start_line <= m.line
                                         /\ m.line <= end_line}})

MinOf(S) == CHOOSE x \in S : \A y \in S : x <= y

MaxOf(S) == CHOOSE x \in S : \A y \in S : y <= x

\* _create_chunk: the chunk runs from the first line of its first definition
\* to the last line of its last one
CreateChunk(chunk_id, defs, lines) ==
  LET start_line == MinOf({defs[i].start_line : i \in 1..Len(defs)})
      end_line == MaxOf({defs[i].end_line : i \in 1..Len(defs)})
  IN [chunk_id |-> chunk_id,
      start_line |-> start_line,
      end_line |-> end_line,
      code |-> Slice(lines, start_line, end_line),
      chunk_type |-> IF Len(defs) = 1 THEN defs[1].type ELSE "multiple",
      name |-> [i \in 1..Len(defs) |-> defs[i].name]]

RECURSIVE GroupMethods(_, _, _, _, _, _, _)
\* _split_large_definition, lines 282-299: the methods of a class grouped
\* into chunks
GroupMethods(methods, i, current_methods, current_lines, acc, lines, start_chunk_id) ==
  IF i > Len(methods)
  THEN IF current_methods # <<>>
       THEN Append(acc, CreateChunk(start_chunk_id + Len(acc),
                                    current_methods, lines))
       ELSE acc
  ELSE LET method == methods[i]
           method_lines == method.end_line - method.start_line + 1
       IN IF current_lines + method_lines > MaxChunkLines
             /\ current_methods # <<>>
          THEN GroupMethods(methods, i + 1, <<method>>, method_lines,
                 Append(acc, CreateChunk(start_chunk_id + Len(acc),
                                         current_methods, lines)),
                 lines, start_chunk_id)
          ELSE GroupMethods(methods, i + 1, Append(current_methods, method),
                 current_lines + method_lines, acc, lines, start_chunk_id)

\* _split_large_definition: a class is split by its methods (the lines of the
\* class in front of its first method go into the context of the prompt, a
\* class without methods gives no chunk), a function is one chunk
SplitLargeDefinition(defn, lines, start_chunk_id) ==
  IF defn.type = "class"
  THEN IF defn.methods # <<>>
       THEN GroupMethods(defn.methods, 1, <<>>, 0, <<>>, lines,
                         start_chunk_id)
       ELSE <<>>
  ELSE << [chunk_id |-> start_chunk_id,
           start_line |-> defn.start_line,
           end_line |-> defn.end_line,
           code |-> Slice(lines, defn.start_line, defn.end_line),
           chunk_type |-> defn.type,
           name |-> <<defn.name>>] >>

\* chunk_file, lines 91-96, 108-112, 121-124: the definitions collected so
\* far become a chunk; chunk_id is the number of chunks made before
Flushed ==
  IF current_chunk_defs # <<>>
  THEN Append(chunks, CreateChunk(Len(chunks), current_chunk_defs,
                                  SourceLines(definitions)))
  ELSE chunks

\* chunk_file, lines 85-118: one turn of the loop over the definitions
SplitStep ==
  /\ cpc = "split"
  /\ defn_idx <= Len(definitions)
  /\ LET defn == definitions[defn_idx]
         defn_lines == defn.end_line - defn.start_line + 1
     IN IF defn_lines > MaxChunkLines
        THEN /\ chunks' = Flushed \o SplitLargeDefinition(defn,
                            SourceLines(definitions), Len(Flushed))
             /\ current_chunk_defs' = <<>>
             /\ current_chunk_lines' = 0
        ELSE IF current_chunk_lines + defn_lines > MaxChunkLines
                /\ current_chunk_defs # <<>>
        THEN /\ chunks' = Flushed
             /\ current_chunk_defs' = <<defn>>
             /\ current_chunk_lines' = defn_lines
        ELSE /\ chunks' = chunks
             /\ current_chunk_defs' = Append(current_chunk_defs, defn)
             /\ current_chunk_lines' = current_chunk_lines + defn_lines
  /\ defn_idx' = defn_idx + 1
  /\ UNCHANGED <<definitions, chunk_results, chunk_calls, complete_go_code,
                 cpc>>
  /\ UNCHANGED <<lvars, uvars, qvars, svars, call_log, pvars, wvars, rvars, evars>>

\* chunk_file, lines 120-127, and _convert_with_chunks, lines 510-516: the
\* last chunk is made and the list returned; without chunks the file is
\* converted as a whole
SplitFlush ==
  /\ cpc = "split"
  /\ defn_idx > Len(definitions)
  /\ chunks' = Flushed
  /\ cpc' = IF Flushed = <<>> THEN "whole" ELSE "convert"
  /\ UNCHANGED <<definitions, defn_idx, current_chunk_defs,
                 current_chunk_lines, chunk_results, chunk_calls,
                 complete_go_code>>
  /\ UNCHANGED <<lvars, uvars, qvars, svars, call_log, pvars, wvars, rvars, evars>>

\* a line of Go code: what reassemble_chunks tells apart, and the chunk or
\* definition the line stands for (-1: none)
Line(kind, of) == [kind |-> kind, of |-> of]

\* the kinds of line whose stripped text is empty or starts with //
Skipped == {"blank", "comment", "todo"}

\* _template_convert, lines 607-638
TemplateConvert ==
  << Line("package", -1), Line("blank", -1), Line("comment", -1),
     Line("blank", -1), Line("import", -1), Line("quoted", -1),
     Line("quoted", -1), Line("code", -1), Line("blank", -1),
     Line("todo", -1), Line("comment", -1), Line("blank", -1),
     Line("code", -1), Line("todo", -1), Line("code", -1) >>

\* what the engine answers to one request: Go code with package and imports,
\* Go code whose imports are a block of several lines, Go code without them,
\* the code it was given, an error, or an error whose message speaks of
\* system memory
Answers == {"code", "block", "bare", "echo", "error", "memory"}

\* the content of an answer that is no error, for the request about the code
\* py_code that stands for unit
Content(answer, py_code, unit) ==
  IF answer = "code"
  THEN << Line("package", -1), Line("blank", -1), Line("import", -1),
          Line("blank", -1), Line("comment", -1), Line("code", unit) >>
  ELSE IF answer = "block"
  THEN << Line("package", -1), Line("blank", -1), Line("import", -1),
          Line("quoted", -1), Line("code", -1), Line("blank", -1),
          Line("code", unit) >>
  ELSE IF answer = "bare"
  THEN << Line("comment", -1), Line("code", unit) >>
  ELSE [k \in 1..Len(py_code) |-> Line("code", py_code[k])]

\* _ai_convert_streaming, lines 389-397: the lines after the last line of
\* code are cut
CutTrailing(go_code) ==
  LET code_at == {i \in 1..Len(go_code) : go_code[i].kind \notin Skipped}
  IN IF code_at = {} THEN go_code ELSE SubSeq(go_code, 1, MaxOf(code_at))

\* _ai_convert_non_streaming: one request; a memory error is raised again,
\* any other error records a warning and gives the template
AiConvertNonStreaming(answers, py_code, unit) ==
  IF answers[1] = "memory"
  THEN [raised |-> TRUE, go_code |-> <<>>, warnings |-> 0]
  ELSE IF answers[1] = "error"
  THEN [raised |-> FALSE, go_code |-> TemplateConvert, warnings |-> 1]
  ELSE [raised |-> FALSE, go_code |-> Content(answers[1], py_code, unit),
        warnings |-> 0]

\* _ai_convert_streaming: one request; a memory error is raised again, any
\* other error falls back to _ai_convert_non_streaming
AiConvertStreaming(answers, py_code, unit) ==
  IF answers[1] = "memory"
  THEN [raised |-> TRUE, go_code |-> <<>>, warnings |-> 0]
  ELSE IF answers[1] = "error"
  THEN AiConvertNonStreaming(Tail(answers), py_code, unit)
  ELSE [raised |-> FALSE,
        go_code |-> CutTrailing(Content(answers[1], py_code, unit)),
        warnings |-> 0]

\* the answers a streamed request and its fallback can meet
StreamAnswers ==
  {<<a>> : a \in Answers \ {"error"}}
    \cup {<<"error", a>> : a \in Answers \ {"bare"}}

\* _convert_with_chunks, lines 520-545: one chunk is converted; an exception
\* leaves the placeholder comment as the chunk's code
ConvertChunk(answers) ==
  /\ cpc = "convert"
  /\ Len(chunk_results) < Len(chunks)
  /\ LET chunk == chunks[Len(chunk_results) + 1]
         r == AiConvertStreaming(answers, chunk.code, chunk.chunk_id)
     IN /\ chunk_results' = Append(chunk_results,
             [chunk_id |-> chunk.chunk_id,
              go_code |-> IF r.raised
                          THEN <<Line("todo", chunk.chunk_id)>>
                          ELSE r.go_code,
              name |-> chunk.name])
        /\ conversion_warnings' = conversion_warnings + r.warnings
  /\ chunk_calls' = Append(chunk_calls, answers)
  /\ UNCHANGED <<definitions, defn_idx, chunks, current_chunk_defs,
                 current_chunk_lines, complete_go_code, cpc>>
  /\ UNCHANGED <<attempts, run_no>>
  /\ UNCHANGED <<lvars, uvars, qvars, svars, call_log, pvars, wvars, rvars>>

\* _convert_with_chunks, lines 512-514, and _ai_convert, lines 248-270: a
\* file that gave no chunk is converted by one request that is not streamed;
\* an exception records a warning and gives the template
ConvertUnchunked(answer) ==
  /\ cpc = "whole"
  /\ LET r == AiConvertNonStreaming(<<answer>>,
                Slice(SourceLines(definitions), 1,
                      definitions[Len(definitions)].end_line), 0)
     IN /\ complete_go_code' = IF r.raised THEN TemplateConvert
                               ELSE r.go_code
        /\ conversion_warnings' =
             conversion_warnings + (IF r.raised THEN 1 ELSE r.warnings)
  /\ chunk_calls' = <<<<answer>>>>
  /\ cpc' = "done"
  /\ UNCHANGED <<definitions, defn_idx, chunks, current_chunk_defs,
                 current_chunk_lines, chunk_results>>
  /\ UNCHANGED <<attempts, run_no>>
  /\ UNCHANGED <<lvars, uvars, qvars, svars, call_log, pvars, wvars, rvars>>

RECURSIVE HeaderScan(_, _, _, _)
\* reassemble_chunks, lines 338-346: the package and import lines in front
\* of the first line of code of the first chunk
HeaderScan(go_code, i, package_lines, import_lines) ==
  IF i > Len(go_code)
  THEN [package_lines |-> package_lines, import_lines |-> import_lines]
  ELSE IF go_code[i].kind = "package"
  THEN HeaderScan(go_code, i + 1, Append(package_lines, go_code[i]),
                  import_lines)
  ELSE IF go_code[i].kind \in {"import", "quoted"}
  THEN HeaderScan(go_code, i + 1, package_lines,
                  Append(import_lines, go_code[i]))
  ELSE IF go_code[i].kind \in Skipped
  THEN HeaderScan(go_code, i + 1, package_lines, import_lines)
  ELSE [package_lines |-> package_lines, import_lines |-> import_lines]

\* reassemble_chunks, lines 359-373: the lines of a chunk from its first line
\* that is neither a package line, an import line, empty nor a comment
CodeLines(go_code) ==
  LET from == {i \in 1..Len(go_code) :
                 go_code[i].kind \notin ({"package", "import"} \cup Skipped)}
  IN IF from = {} THEN <<>>
     ELSE SubSeq(go_code, MinOf(from), Len(go_code))

RECURSIVE ChunkParts(_)
\* reassemble_chunks, lines 358-377: the parts the chunks add
ChunkParts(rs) ==
  IF rs = <<>> THEN <<>>
  ELSE (IF CodeLines(rs[1].go_code) # <<>>
        THEN <<CodeLines(rs[1].go_code)>> ELSE <<>>)
       \o ChunkParts(Tail(rs))

RECURSIVE JoinParts(_)
\* '\n'.join(parts): every part is followed by an empty part
JoinParts(ps) ==
  IF ps = <<>> THEN <<>>
  ELSE IF Len(ps) = 1 THEN ps[1]
  ELSE ps[1] \o <<Line("blank", -1)>> \o JoinParts(Tail(ps))

\* reassemble_chunks
ReassembleChunks(rs) ==
  IF rs = <<>> THEN <<>>
  ELSE LET h == HeaderScan(rs[1].go_code, 1, <<>>, <<>>)
       IN JoinParts(
            (IF h.package_lines # <<>> THEN <<h.package_lines>> ELSE <<>>)
            \o (IF h.import_lines # <<>> THEN <<h.import_lines>> ELSE <<>>)
            \o ChunkParts(rs))

\* _convert_with_chunks, lines 547-551
Reassemble ==
  /\ cpc = "convert"
  /\ Len(chunk_results) = Len(chunks)
  /\ complete_go_code' = ReassembleChunks(chunk_results)
  /\ cpc' = "done"
  /\ UNCHANGED <<definitions, defn_idx, chunks, current_chunk_defs,
                 current_chunk_lines, chunk_results, chunk_calls>>
  /\ UNCHANGED <<lvars, uvars, qvars, svars, call_log, pvars, wvars, rvars, evars>>

\* the call of chunk_file
ChunkStart(src) ==
  /\ definitions = ExtractDefinitions(src)
  /\ defn_idx = 1
  /\ chunks = <<>>
  /\ current_chunk_defs = <<>>
  /\ current_chunk_lines = 0
  /\ chunk_results = <<>>
  /\ chunk_calls = <<>>
  /\ complete_go_code = <<>>
  /\ cpc = "split"
  /\ call_log = <<>>
  /\ LevelsIdle /\ UnitIdle /\ SeqIdle /\ StoreIdle /\ PoolIdle /\ CallerIdle /\ EngineIdle

\* chunk_file and reassemble_chunks around an engine that gives back the
\* code it is given
SplitInit == \E src \in SourceFiles \ {<<>>} : ChunkStart(src)

SplitNext ==
  \/ SplitStep
  \/ SplitFlush
  \/ ConvertChunk(<<"echo">>)
  \/ ConvertUnchunked("echo")
  \/ Reassemble

SpecSplit == SplitInit /\ [][SplitNext]_vars

\* the oversized files _convert_file hands to _convert_with_chunks: functions
\* of 500 lines and at most one class of 600 lines, one definition after the
\* other
ChunkFiles ==
  { src \in SourceFiles :
      /\ FileLines(src) > MaxChunkLines
      /\ \A i \in 1..Len(src) :
           /\ src[i].gap = 0
           /\ src[i].type = "function" => src[i].lines = 500
      /\ Cardinality({i \in 1..Len(src) : src[i].type = "class"}) <= 1 }

ChunkInit == \E src \in ChunkFiles : ChunkStart(src)

ChunkNext ==
  \/ SplitStep
  \/ SplitFlush
  \/ \E answers \in StreamAnswers : ConvertChunk(answers)
  \/ \E answer \in Answers : ConvertUnchunked(answer)
  \/ Reassemble

\* _convert_file on an oversized file
SpecChunk == ChunkInit /\ [][ChunkNext]_vars

(***************************************************************************)
(* Properties of the conversion by chunks                                  *)
(***************************************************************************)
\* the chunks whose last request met an error
FailedChunks ==
  {i \in 1..Len(chunk_calls) :
     chunk_calls[i][Len(chunk_calls[i])] \in {"error", "memory"}}

\* the lines of go_code that hold a marker of a failed conversion
Markers(go_code) ==
  Cardinality({k \in 1..Len(go_code) : go_code[k].kind = "todo"})

\* the lines of code the engine gave for chunk i
BodyOf(i) ==
  {l \in SeqToSet(chunk_results[i].go_code) : l.kind = "code" /\ l.of >= 0}

\* the places of the lines of S in go_code
PlacesOf(S, go_code) == {k \in 1..Len(go_code) : go_code[k] \in S}

\* C13: when some but not all chunks of an oversized file fail, the file is
\* not given up: every chunk has a result, the output holds the bodies of the
\* chunks that succeeded in the order of the chunks, and it holds one
\* placeholder marker for every chunk that failed
C13_FailedChunksLeaveMarkers ==
  (/\ cpc = "done"
   /\ chunks # <<>>
   /\ FailedChunks # {}
   /\ Cardinality(FailedChunks) < Len(chunks)) =>
    /\ Len(chunk_results) = Len(chunks)
    /\ \A i \in (1..Len(chunks)) \ FailedChunks :
         /\ BodyOf(i) # {}
         /\ BodyOf(i) \subseteq SeqToSet(complete_go_code)
    /\ \A i, j \in (1..Len(chunks)) \ FailedChunks :
         i < j => \A a \in PlacesOf(BodyOf(i), complete_go_code),
                     b \in PlacesOf(BodyOf(j), complete_go_code) : a < b
    /\ Markers(complete_go_code) >= Cardinality(FailedChunks)

\* C15: when every top-level definition of a file spans at most
\* MaxChunkLines lines, no chunk of chunk_file spans more than MaxChunkLines
\* lines, whatever lines lie between the definitions; functions of 300, 500
\* and 450 lines give at least three chunks
C15_ChunksWithinThreshold ==
  /\ (\A i \in 1..Len(definitions) :
        definitions[i].end_line - definitions[i].start_line + 1
          <= MaxChunkLines) =>
       \A k \in 1..Len(chunks) :
         chunks[k].end_line - chunks[k].start_line + 1 <= MaxChunkLines
  /\ (/\ cpc \in {"convert", "done"}
      /\ [i \in 1..Len(definitions) |->
            definitions[i].end_line - definitions[i].start_line + 1]
           = <<300, 500, 450>>) => Len(chunks) >= 3

\* the line opens a top-level definition
IsTopLevel(l) == l.kind = "code" /\ l.of > 0 /\ l.of % 10 = 0

\* the top-level definitions go_code holds, in its order
TopLevelIn(go_code) ==
  LET sel == SelectSeq(go_code, IsTopLevel)
  IN [k \in 1..Len(sel) |-> sel[k].of]

\* C16: with a chunk translation that gives back the code it is given, the
\* output of reassemble_chunks over the chunks of chunk_file holds the
\* top-level definitions of the file, each once, in the order of the source
C16_RoundTripKeepsDefinitions ==
  (cpc = "done" /\ chunks # <<>>) =>
    TopLevelIn(complete_go_code)
      = [i \in 1..Len(definitions) |-> definitions[i].name]

(***************************************************************************)
(* Properties of the engine requests of a parallel run                     *)
(***************************************************************************)
\* the processings of the run under way that gave no Go code
FailedAttempts == {a \in attempts : a.run = run_no /\ a.outcome # "code"}

\* C14: every unit whose translation failed in a parallel run is recorded in
\* the summary convert_parallel returns: its count of warnings covers the
\* failed units
C14_FailuresInSummary ==
  opc = "done" => conversion_warnings >= Cardinality(FailedAttempts)

\* C17: a request for a whole unit that meets an engine error makes at most
\* two calls of the engine, ends in a placeholder output (the WorkResult of
\* the unit holds code) and leaves a warning; it never stops the run
C17_ErrorsEndInPlaceholder ==
  /\ \A a \in attempts : a.calls <= 2
  /\ \A r \in ResultsAbout : (~r.cached /\ r.success) => r.go_code # None
  /\ (\E a \in attempts : a.run = run_no /\ a.outcome = "none") =>
       conversion_warnings > 0

\* C18: convert_parallel ends, whatever engine errors, store failures and
\* identifiers of no scanned file it meets: under fair scheduling every
\* level is submitted and awaited, the pool is shut down and the summary is
\* returned
C18_RunTerminates ==
  <>(/\ opc = "done"
     /\ stop_event
     /\ level_idx = Len(dependency_levels)
     /\ work_queue = <<>>
     /\ \A i \in 1..Len(emitted) : emitted[i] = 1)

\* a run of two levels has ended behind a store whose calls raise, an engine
\* error, a file that could not be read and an identifier of no scanned file
C18_Witness ==
  /\ opc = "done"
  /\ stop_event
  /\ client_raises
  /\ Len(dependency_levels) = 2
  /\ level_idx = 2
  /\ \E i \in 1..2 : "os" \in SeqToSet(dependency_levels[i])
  /\ \E a \in attempts : a.outcome = "none"
  /\ \E a \in attempts : a.outcome = "raise"

(***************************************************************************)
(* Properties of the levels: which units a level holds                     *)
(***************************************************************************)
\* the levels that hold a dependency of u
DepLevels(u) == {j \in 1..Len(levels) : LevelSet(j) \cap KnownDeps(u) # {}}

\* C19: for an acyclic graph every level is exactly the set of the units not
\* yet placed whose dependencies all stand in earlier levels: a unit without
\* dependencies stands in the first level, any other unit in the level after
\* the last level of its dependencies (a reference to an identifier outside
\* the scan counts as no dependency)
C19_LevelsAreMaximal ==
  (bpc = "done" /\ Acyclic(dependency_graph)) =>
    /\ \A i \in 1..Len(levels) :
         LevelSet(i) = {u \in Placed \ Earlier(i) :
                          KnownDeps(u) \subseteq Earlier(i)}
    /\ \A i \in 1..Len(levels) : \A u \in LevelSet(i) :
         i = IF DepLevels(u) = {} THEN 1 ELSE 1 + MaxOf(DepLevels(u))

(***************************************************************************)
(* Properties of the requests of the workers                               *)
(***************************************************************************)
\* C20: a worker translates a unit that the cache does not serve by one
\* request for the whole file when the unit has at most MaxChunkLines lines,
\* and chunk by chunk when it has more: no oversized unit goes to the engine
\* as one whole request
C20_OversizedUnitsAreChunked ==
  \A a \in attempts :
    a.calls > 0 => (a.kind = "whole" <=> ~a.oversized)

(***************************************************************************)
(* ConversionWorker._process_work_item, statement by statement             *)
(*                                                                         *)
(* One worker processes one unit after the other; between and during the   *)
(* processings the files on disk are edited. `calls` lists the calls of    *)
(* the processing under way on the store and on the engine, in order, and  *)
(* ends with the WorkResult emitted.                                       *)
(***************************************************************************)
\* the units the worker is given
UnitFiles == {FileA, FileB}

\* what the engine call of a worker returns: Go code or None (lines 887-889)
EngineOutcomes == {"code", "none"}

\* what open() and read() end in (lines 123-124)
OpenOutcomes == {"read", "raise"}

\* AfterChanged sending a changed file to the cache as well
AfterChangedAlwaysGet(changed) == "get"

\* lines 131-134: after file_changed the cache is asked only for an unchanged
\* file
AfterChanged(changed) == IF changed THEN "convert" ELSE "get"

\* lines 164-172 and 137-143 and 174-184: the WorkResult of a processing
UnitResult(file, go, cached, failed) ==
  [id |-> 1, level |-> 1, file_path |-> file, go_code |-> go,
   success |-> ~failed, error |-> failed, cached |-> cached,
   model_used |-> IF failed THEN "error" ELSE IF cached THEN "cache"
                  ELSE "smart"]

\* a file on disk is edited
Edit(path, c) ==
  /\ content[path] # c
  /\ content' = [content EXCEPT ![path] = c]
  /\ UNCHANGED <<redis_available, client_raises, file_hash, conversion>>
  /\ UNCHANGED <<lvars, call_log, pvars, wvars, rvars, evars, cvars, uvars,
                 qvars>>

\* lines 118-121: the worker starts on a work item
UnitStart(file) ==
  /\ ppc = "idle"
  /\ ppc' = "open"
  /\ locals' = [NoLocals EXCEPT !.file_path = file.path]
  /\ calls' = <<>>
  /\ UNCHANGED returned
  /\ UNCHANGED <<lvars, svars, call_log, pvars, wvars, rvars, evars, cvars,
                 qvars>>

\* lines 123-130: the file is read; open() raising ends the processing in
\* the except branch (lines 174-184)
UnitOpen(outcome) ==
  /\ ppc = "open"
  /\ IF outcome = "raise"
     THEN /\ ppc' = "idle"
          /\ returned' = UnitResult(locals.file_path, None, FALSE, TRUE)
          /\ calls' = Append(calls, [op |-> "emit", ret |-> "failed"])
          /\ UNCHANGED locals
     ELSE /\ ppc' = IF redis_available THEN "changed" ELSE "convert"
          /\ locals' = [locals EXCEPT !.content = content[locals.file_path]]
          /\ UNCHANGED <<calls, returned>>
  /\ UNCHANGED <<lvars, svars, call_log, pvars, wvars, rvars, evars, cvars,
                 qvars>>

\* lines 131-132: file_changed
UnitChanged ==
  /\ ppc = "changed"
  /\ LET r == FileChanged(StoreAnswers, file_hash, locals.file_path,
                          locals.content)
     IN /\ file_hash' = r.file_hash
        /\ locals' = [locals EXCEPT !.file_changed = r.ret]
        /\ calls' = Append(calls, [op |-> "changed",
                                   ret |-> IF r.ret THEN "true" ELSE "false"])
        /\ ppc' = AfterChanged(r.ret)
  /\ UNCHANGED returned
  /\ UNCHANGED <<redis_available, client_raises, conversion, content>>
  /\ UNCHANGED <<lvars, call_log, pvars, wvars, rvars, evars, cvars, qvars>>

\* lines 134-143: get_conversion_output; a stored output is returned as a
\* cache hit
UnitGet ==
  /\ ppc = "get"
  /\ LET r == GetConversionOutput(StoreAnswers, conversion, locals.file_path)
     IN /\ locals' = [locals EXCEPT !.cached_result = r]
        /\ IF r # None
           THEN /\ ppc' = "idle"
                /\ returned' = UnitResult(locals.file_path, r, TRUE, FALSE)
                /\ calls' = calls \o <<[op |-> "get", ret |-> "hit"],
                                       [op |-> "emit", ret |-> "cached"]>>
           ELSE /\ ppc' = "convert"
                /\ calls' = Append(calls, [op |-> "get", ret |-> "absent"])
                /\ UNCHANGED returned
  /\ UNCHANGED <<lvars, svars, call_log, pvars, wvars, rvars, evars, cvars,
                 qvars>>

\* lines 146-156: _convert_file_with_model, then the test of line 156
UnitConvert(outcome) ==
  /\ ppc = "convert"
  /\ LET go == IF outcome = "code" THEN Translate(locals.content) ELSE None
     IN /\ locals' = [locals EXCEPT !.go_code = go]
        /\ ppc' = IF redis_available /\ go # None THEN "store" ELSE "return"
  /\ calls' = Append(calls, [op |-> "engine", ret |-> outcome])
  /\ UNCHANGED returned
  /\ UNCHANGED <<lvars, svars, call_log, pvars, wvars, rvars, evars, cvars,
                 qvars>>

\* lines 157-162: store_conversion_output
UnitStore ==
  /\ ppc = "store"
  /\ conversion' = StoreConversionOutput(StoreAnswers, conversion,
                                         locals.file_path, locals.go_code)
  /\ calls' = Append(calls, [op |-> "put", ret |-> locals.go_code])
  /\ ppc' = "return"
  /\ UNCHANGED <<locals, returned>>
  /\ UNCHANGED <<redis_available, client_raises, file_hash, content>>
  /\ UNCHANGED <<lvars, call_log, pvars, wvars, rvars, evars, cvars, qvars>>

\* lines 164-172: the WorkResult of a translation is returned
UnitReturn ==
  /\ ppc = "return"
  /\ ppc' = "idle"
  /\ returned' = UnitResult(locals.file_path, locals.go_code, FALSE, FALSE)
  /\ calls' = Append(calls, [op |-> "emit",
                 ret |-> IF locals.go_code # None THEN "fresh" ELSE "empty"])
  /\ UNCHANGED locals
  /\ UNCHANGED <<lvars, svars, call_log, pvars, wvars, rvars, evars, cvars,
                 qvars>>

UnitInit ==
  /\ StoreInit /\ UnitIdle
  /\ LevelsIdle /\ PoolIdle /\ CallerIdle /\ EngineIdle /\ ChunkIdle
  /\ SeqIdle

UnitNext ==
  \/ \E file \in UnitFiles : UnitStart(file)
  \/ \E outcome \in OpenOutcomes : UnitOpen(outcome)
  \/ UnitChanged
  \/ UnitGet
  \/ \E outcome \in EngineOutcomes : UnitConvert(outcome)
  \/ UnitStore
  \/ UnitReturn
  \/ \E file \in UnitFiles, c \in Contents : Edit(file.path, c)

SpecUnit == UnitInit /\ [][UnitNext]_vars

\* the calls of the processing under way before position i
Before(i, op, rets) ==
  \E j \in 1..(i - 1) : calls[j].op = op /\ calls[j].ret \in rets

\* C21: with a store, the cache is asked for an output only after
\* file_changed was called for the unit and returned false; the engine is
\* called only after file_changed returned true or the cache had no output;
\* and the output of every successful translation is put into the store
\* before its WorkResult is emitted.
C21_StoreCallsInOrder ==
  redis_available =>
    \A i \in 1..Len(calls) :
      /\ calls[i].op = "get" => Before(i, "changed", {"false"})
      /\ calls[i].op = "engine" =>
           \/ Before(i, "changed", {"true"})
           \/ Before(i, "get", {"absent"})
      /\ (calls[i].op = "emit" /\ calls[i].ret = "fresh") =>
           Before(i, "put", {returned.go_code})

\* a processing asked the cache, found nothing, translated, stored and
\* returned
C21_Witness ==
  /\ redis_available
  /\ Len(calls) = 5
  /\ calls[1] = [op |-> "changed", ret |-> "false"]
  /\ calls[2] = [op |-> "get", ret |-> "absent"]
  /\ calls[3] = [op |-> "engine", ret |-> "code"]
  /\ calls[4].op = "put"
  /\ calls[5] = [op |-> "emit", ret |-> "fresh"]

\* C24: the output of a cache hit was produced from the content the
\* processing read: a stale output is never served for a changed file, also
\* when the translation of the new content failed in between.
C24_CacheHitsAreCurrent ==
  (ppc = "idle" /\ returned # NoItem /\ returned.cached) =>
    returned.go_code = Translate(locals.content)

\* C25: a WorkResult has success true only if its go_code is not None, and
\* success false exactly when it has an error; a failed engine call never
\* gives a result with success true.
C25_SuccessMeansCode ==
  returned # NoItem =>
    /\ returned.success => returned.go_code # None
    /\ ~returned.success <=> returned.error
    /\ (calls # <<>> /\ calls[Len(calls)].op = "emit"
        /\ Before(Len(calls), "engine", {"none"})) => ~returned.success

(***************************************************************************)
(* AIConverter.convert: the files converted one after the other            *)
(*                                                                         *)
(* The files of these runs are below the chunking threshold, so            *)
(* _convert_file sends each of them to _ai_convert as a whole. The command *)
(* is run a second time over the store and the files the first run left.   *)
(***************************************************************************)
\* a file_info record of the scanner, with its valid_syntax flag; the record
\* of a file of invalid syntax has no 'lines', read as 0 by its users
Scanned(file, valid) ==
  [path |-> file.path, name |-> file.name,
   lines |-> IF valid THEN file.lines ELSE 0, valid_syntax |-> valid]

\* the scans a sequential run is given
SeqFiles ==
  { <<Scanned(FileA, v1), Scanned(FileC, v2)>> : v1 \in BOOLEAN,
                                                  v2 \in BOOLEAN }

\* the text _template_convert returns for a file (lines 607-638)
TemplateOutput == "template"

\* the answers the streamed request of a file and its fallback can meet
SeqAnswers ==
  { <<"code">>, <<"memory">>, <<"error", "code">>, <<"error", "error">>,
    <<"error", "memory">> }

\* _ai_convert, lines 248-270: the streamed request and its fallback; an
\* exception that leaves them records a warning and gives the template
AiConvert(answers, c) ==
  LET r == AiConvertStreaming(answers, <<>>, 0)
  IN IF r.raised
     THEN [go_code |-> TemplateOutput, warnings |-> 1]
     ELSE IF r.go_code = TemplateConvert
     THEN [go_code |-> TemplateOutput, warnings |-> r.warnings]
     ELSE [go_code |-> Translate(c), warnings |-> r.warnings]

\* the entry of converted_modules and the Go file written for it
Module(file, go, cached) ==
  [python_file |-> file.name, path |-> file.path, go_code |-> go,
   cached |-> cached]

\* lines 89-176: one iteration of the for loop over files
SeqFile(answers, opened) ==
  /\ spc = "loop"
  /\ file_idx <= Len(files)
  /\ file_idx' = file_idx + 1
  /\ LET file == files[file_idx]
         c == content[file.path]
         fc == IF redis_available
               THEN FileChanged(StoreAnswers, file_hash, file.path, c)
               ELSE [ret |-> TRUE, file_hash |-> file_hash]
         cached == IF redis_available /\ ~fc.ret
                   THEN GetConversionOutput(StoreAnswers, conversion, file.path)
                   ELSE None
         r == AiConvert(answers, c)
     IN IF ~file.valid_syntax
        THEN UNCHANGED <<file_hash, conversion, cache_hits, cache_misses,
                         converted_modules, conversion_warnings, attempts>>
        ELSE IF opened = "raise"
        THEN /\ conversion_warnings' = conversion_warnings + 1
             /\ UNCHANGED <<file_hash, conversion, cache_hits, cache_misses,
                            converted_modules, attempts>>
        ELSE IF cached # None
        THEN /\ file_hash' = fc.file_hash
             /\ cache_hits' = cache_hits + 1
             /\ converted_modules' =
                  Append(converted_modules, Module(file, cached, TRUE))
             /\ UNCHANGED <<conversion, cache_misses, conversion_warnings,
                            attempts>>
        ELSE /\ file_hash' = fc.file_hash
             /\ cache_misses' = cache_misses + 1
             /\ conversion_warnings' = conversion_warnings + r.warnings
             /\ conversion' =
                  IF redis_available
                  THEN StoreConversionOutput(StoreAnswers, conversion,
                                             file.path, r.go_code)
                  ELSE conversion
             /\ converted_modules' =
                  Append(converted_modules, Module(file, r.go_code, FALSE))
             /\ attempts' = attempts \cup
                  {[run |-> run_no, path |-> file.path, answers |-> answers]}
             /\ UNCHANGED cache_hits
  /\ UNCHANGED <<spc, run_no, files, dependency_levels, level_idx,
                 modules_created>>
  /\ UNCHANGED <<redis_available, client_raises, content>>
  /\ UNCHANGED <<lvars, call_log, pvars, wvars, cvars, uvars>>

\* lines 178-205: the report is written and the result returned
SeqReturn ==
  /\ spc = "loop"
  /\ file_idx > Len(files)
  /\ spc' = "done"
  /\ modules_created' = Len(converted_modules)
  /\ UNCHANGED <<file_idx, converted_modules>>
  /\ UNCHANGED <<files, dependency_levels, level_idx, cache_hits,
                 cache_misses>>
  /\ UNCHANGED <<lvars, svars, call_log, pvars, wvars, evars, cvars, uvars>>

\* the command is started again: a new AIConverter over the store and the
\* files the first run has left
SeqAgain ==
  /\ spc = "done"
  /\ run_no = 1
  /\ run_no' = 2
  /\ spc' = "loop"
  /\ file_idx' = 1
  /\ converted_modules' = <<>>
  /\ conversion_warnings' = 0
  /\ cache_hits' = 0
  /\ cache_misses' = 0
  /\ modules_created' = 0
  /\ UNCHANGED <<files, dependency_levels, level_idx, attempts>>
  /\ UNCHANGED <<lvars, svars, call_log, pvars, wvars, cvars, uvars>>

SeqInit ==
  /\ files \in SeqFiles
  /\ spc = "loop"
  /\ file_idx = 1
  /\ converted_modules = <<>>
  /\ dependency_levels = <<>>
  /\ level_idx = 0
  /\ cache_hits = 0
  /\ cache_misses = 0
  /\ modules_created = 0
  /\ opc = "idle"
  /\ total_items = 0
  /\ results = <<>>
  /\ completed = 0
  /\ StoreInit /\ PoolIdle /\ LevelsIdle /\ EngineIdle /\ ChunkIdle
  /\ UnitIdle

SeqNext ==
  \/ \E answers \in SeqAnswers, opened \in OpenOutcomes :
       SeqFile(answers, opened)
  \/ SeqReturn
  \/ SeqAgain
  \/ \E file \in {FileA, FileC}, c \in Contents :
       spc = "done" /\ Edit(file.path, c)

SpecSeq == SeqInit /\ [][SeqNext]_vars

\* the outputs the engine can have produced for some content
EngineOutputs == {Translate(c) : c \in Contents}

\* C26: on the sequential path and on the worker path, a cache entry is
\* written only with the output of a successful translation by the engine:
\* the template and the placeholder are never stored, so that no later run
\* serves one as a cache hit.
C26_OnlyTranslationsCached ==
  /\ \A p \in Paths : conversion[p] # None => conversion[p] \in EngineOutputs
  /\ \A i \in 1..Len(converted_modules) :
       converted_modules[i].cached =>
         converted_modules[i].go_code \in EngineOutputs

\* the requests of attempt a met an error that speaks of system memory
Exhausted(a) == \E k \in 1..Len(a.answers) : a.answers[k] = "memory"

\* C23: after an error of resource exhaustion the engine is not called again
\* for that request, the unit is reported as failed and not as a converted
\* unit, and the other units are still processed.
C23_ExhaustionFailsTheUnit ==
  \A a \in attempts :
    (a.run = run_no /\ Exhausted(a)) =>
      /\ a.answers[Len(a.answers)] = "memory"
      /\ \A i \in 1..Len(converted_modules) :
           converted_modules[i].path # a.path
      /\ spc = "done" => file_idx = Len(files) + 1

(***************************************************************************)
(* The parallel pipeline of the command line: the scan, the import graph   *)
(* of DependencyAnalyzer.analyze, build_dependency_levels and              *)
(* convert_parallel over the levels it returned                            *)
(***************************************************************************)
\* the import graph analyze builds: a key for the name of every file of
\* valid syntax that imports something, with the modules it imports
ImportGraph(keys, imports) == [k \in keys |-> imports[k]]

\* scans and their import graphs: two files of which one imports the other
\* and is imported itself; a file that imports one of invalid syntax; files
\* without imports, one of them invalid; two files of the same name; and a
\* file that imports another that imports nothing
PipeCases ==
  { [files |-> <<Scanned(FileA, TRUE), Scanned(FileB, TRUE)>>,
     graph |-> ImportGraph({"a.py", "b.py"},
                           [k \in {"a.py", "b.py"} |->
                              IF k = "a.py" THEN {"os"} ELSE {"a"}])],
    [files |-> <<Scanned(FileA, TRUE), Scanned(FileB, FALSE)>>,
     graph |-> ImportGraph({"a.py"}, [k \in {"a.py"} |-> {"b"}])],
    [files |-> <<Scanned(FileA, TRUE), Scanned(FileB, FALSE)>>,
     graph |-> ImportGraph({}, <<>>)],
    [files |-> <<Scanned(FileA, TRUE), Scanned(FileB, TRUE),
                 Scanned(FileC, TRUE)>>,
     graph |-> ImportGraph({"a.py"}, [k \in {"a.py"} |-> {"b"}])],
    [files |-> <<Scanned(FileA, TRUE), Scanned(FileB, TRUE)>>,
     graph |-> ImportGraph({"b.py"}, [k \in {"b.py"} |-> {"a"}])] }

\* the levels as lists: each set of identifiers in the order of its iteration
LevelLists(lvls) == [i \in 1..Len(lvls) |-> SetToSeq(lvls[i])]

\* cli/main.py, lines 94 and 111-116: the levels are built from the scan and
\* the graph, and convert_parallel is called with the scan and the levels
PipeInit ==
  /\ \E case \in PipeCases :
       /\ files = case.files
       /\ dependency_levels =
            LevelLists(ReturnedLevels(case.graph, case.files))
  /\ level_idx = 0
  /\ cache_hits = 0
  /\ cache_misses = 0
  /\ modules_created = 0
  /\ opc = "level"
  /\ total_items = 0
  /\ results = <<>>
  /\ completed = 0
  /\ StoreInit /\ PoolIdle /\ LevelsIdle /\ EngineIdle /\ ChunkIdle
  /\ UnitIdle /\ SeqIdle

SpecPipe == PipeInit /\ [][RunNext]_vars

RECURSIVE RunItems(_, _, _, _)
\* lines 946-982: the work items convert_parallel creates for the levels from
\* level k on, in the order of their creation
RunItems(fs, lvls, k, first) ==
  IF k > Len(lvls) THEN <<>>
  ELSE LET items == LevelItems(fs, lvls[k], k - 1, first)
       IN items \o RunItems(fs, lvls, k + 1, first + Len(items))

\* the work items submitted so far
Submitted ==
  SubSeq(RunItems(files, dependency_levels, 1, 1), 1, Len(taken))

\* C28: each scanned unit becomes at most one work item over all levels, also
\* when the levels name it by several identifiers or two scanned files have
\* the same name: no unit is translated twice and no two workers hold the
\* same unit.
C28_OneWorkItemPerUnit ==
  /\ \A i \in 1..Len(Submitted), j \in 1..Len(Submitted) :
       i # j => Submitted[i].file_info.path # Submitted[j].file_info.path
  /\ \A v \in Workers, w \in Workers :
       (v # w /\ witem[v] # NoItem /\ witem[w] # NoItem) =>
         witem[v].file_info.path # witem[w].file_info.path

\* C30: the parallel pipeline translates no unit whose valid_syntax is
\* false, also when no identifier of the graph matches a scanned unit and
\* the scanned files themselves are the one level.
C30_InvalidUnitsNotTranslated ==
  /\ \A i \in 1..Len(Submitted) : Submitted[i].file_info.valid_syntax
  /\ \A w \in Workers :
       (wpc[w] = "put" /\ ~wresult[w].cached /\ wresult[w].go_code # None)
         => witem[w].file_info.valid_syntax

\* C29: when convert_parallel returns, cache_hits + cache_misses is the number
\* of WorkResults collected, each counted once; it is the number of WorkItems
\* submitted unless wait_for_completion returned early (no worker alive); and
\* modules_created is at most cache_hits + cache_misses.
C29_CountsMatchResults ==
  /\ opc \in {"level", "join", "done"} =>
       cache_hits + cache_misses = Len(taken)
  /\ modules_created <= cache_hits + cache_misses
  /\ opc = "returned" =>
       /\ AliveWorkers # {} => Len(results) = total_items
       /\ \A i \in 1..Len(results), j \in 1..Len(results) :
            i # j => results[i].id # results[j].id

\* a run of two levels has returned with cache hits, cache misses and a
\* result that was counted but brought no module
C29_Witness ==
  /\ opc = "done"
  /\ Len(taken) = 4
  /\ cache_hits > 0
  /\ cache_misses > 0
  /\ modules_created < cache_hits + cache_misses

\* the number of lines reassemble_chunks puts in front of the parts of the
\* chunks: the package lines and the import lines of the first chunk, each
\* followed by an empty line
HeaderRegion ==
  LET h == HeaderScan(chunk_results[1].go_code, 1, <<>>, <<>>)
  IN (IF h.package_lines # <<>> THEN Len(h.package_lines) + 1 ELSE 0)
     + (IF h.import_lines # <<>> THEN Len(h.import_lines) + 1 ELSE 0)

\* C22: reassemble_chunks strips the header every chunk emits again, that of
\* the first chunk included: no package line and no import line of a chunk,
\* nor a line inside an import block, stands in the body region of the
\* output; the header region comes from the first chunk alone.
C22_HeadersStripped ==
  (cpc = "done" /\ chunk_results # <<>>) =>
    \A k \in 1..Len(complete_go_code) :
      k > HeaderRegion =>
        complete_go_code[k].kind \notin {"package", "import", "quoted"}

\* definition d lies within the lines of chunk c
Within(d, c) == c.start_line <= d.start_line /\ d.end_line <= c.end_line

\* what C27 says of the chunks chunk_file returned
ChunksCoverInOrder ==
  /\ \A i \in 1..Len(definitions) :
       \E k \in 1..Len(chunks) : Within(definitions[i], chunks[k])
  /\ \A k \in 1..Len(chunks) : chunks[k].chunk_id = k - 1
  /\ \A k \in 1..(Len(chunks) - 1) :
       /\ chunks[k].start_line <= chunks[k].end_line
       /\ chunks[k].end_line < chunks[k + 1].start_line
  /\ (Len(definitions) = 1 /\ definitions[1].type = "class") => chunks # <<>>

\* C27: every top-level function and class lies within the line range of at
\* least one chunk of chunk_file; the chunk ids are 0..n-1 in the order of
\* the list; the ranges increase strictly and do not overlap; and a class
\* that alone exceeds the threshold gives at least one chunk, with or without
\* methods.
C27_ChunksCoverDefinitions == cpc # "split" => ChunksCoverInOrder
====
